---- MODULE Spec2Model ----
(***************************************************************************)
(* Procedural terrain streaming of racingGame2.5D: the Terrain class       *)
(* (center+borders variant, src/unnamed/part_004) as driven by Game        *)
(* (src/src/components/Game.js).                                           *)
(*                                                                         *)
(* Positions are integers in world units; heights are fixed-point          *)
(* integers in thousandths of a unit.  A tracked position is a record      *)
(* [kind, v] so that the non-numeric JavaScript values (undefined, NaN,    *)
(* +Infinity, -Infinity) can be passed to update like any other input.     *)
(***************************************************************************)
EXTENDS Integers, Sequences, FiniteSets, TLC

(***************************************************************************)
(* Program constants                                                       *)
(***************************************************************************)
segmentWidth == 40
segmentsAhead == 5
segmentsBehind == 5
initialSegments == 20
startOffset == 0 - 5
totalSegments == 30
batchSize == 5
batchFirstIndex == 8
lcgMultiplier == 9301
lcgIncrement == 49297
lcgModulus == 233280
difficultyRange == 5000
nbPoints == 30

(***************************************************************************)
(* Bounds of the model                                                     *)
(***************************************************************************)
MaxTicks == 3
MaxSegIdx == 24
MaxSchedules == 1

GameSeeds == {42}
MaxBuilds == 2
BuildSeeds == {42, 12}
BuildStartXs == {560, 720, 1520, 3520}
RemovedStartXs == {560}
MaxDraws == 10
MaxQueries == 2
MaxQueryBuilds == 1
MaxDisposals == 2
MaxLiveTicks == 1
MaxFaultTicks == 1
MaxFaultBuilds == 2
MaxToggles == 2
MaxResets == 1
MaxFrames == 2
\* queried positions in thousandths: inside the initial store, inside a
\* segment that a build may add, in the middle of one, and beyond all of them
QueryXs == {1000, 561000, 1540000, 2000000}
RngSeeds == {42, 0, 1, 233279, 233280, 999999, 2147483647,
             0 - 1, 0 - 5, 0 - 6, 0 - 100, 0 - 233280, 0 - 2147483647}

Num(v) == [kind |-> "num", v |-> v]
ValidPositions == {Num(5), Num(45), Num(125), Num(165), Num(445), Num(605)}
InvalidPositions ==
  {[kind |-> "missing", v |-> 0], [kind |-> "notnum", v |-> 0],
   [kind |-> "nan", v |-> 0], [kind |-> "neginf", v |-> 0],
   [kind |-> "posinf", v |-> 0], Num(0 - 5)}
Positions == ValidPositions \cup InvalidPositions

VARIABLES
  terrainMeshes,   \* the segment store, in array order
  seed,            \* this.seed, the state of the LCG
  world,           \* ids of the segments whose bodies are in physicsWorld
  scene,           \* ids of the segments whose meshes are in the scene
  nextId,          \* identity of the next segment object
  timers,          \* pending setTimeout(generateNextBatch): their currentIndex
  pc,              \* position inside update: idle, generate, evict, heal
  tracked,         \* vehiclePosition of the tick in progress
  existing,        \* existingSegmentsStartX of the tick in progress
  ticks,           \* number of ticks that passed the validity check
  outcome,         \* the last operation, if a tick: rejected, running, completed
  healed,          \* the last completed tick built a segment in self-heal
  initCalls,       \* number of explicit initialize() calls
  schedules,       \* number of generateAdditionalSegments() calls
  noiseOffsetX,    \* this.noiseOffsetX, seed % 10000 at construction
  twin,            \* a second Terrain instance constructed with the same seed
  builds,          \* number of direct createTerrainSegment calls
  draws,           \* number of seededRandom() calls made directly
  queries,         \* number of noise and height queries made
  disposals,       \* number of dispose() calls
  game,            \* the Game that owns the Terrain, if there is one
  skipped,         \* the start position that generate-ahead skipped last
  returned,        \* what the last direct call returned, and for which x
  points,          \* the sample array handed to smoothSegmentPoints
  smoothed,        \* the array as it was handed in, and the windows averaged
  terrainBodies,   \* the bodies that a build pushed for the array, in order
  decorations,     \* segment.decorations of the segment handed to applyLOD
  lod,             \* the applyLOD calls made on it, and the last distance
  objectPools,     \* this.objectPools: the pooled decoration objects by type
  children,        \* the decoration objects that are children of the scene
  decorated,       \* the decorations arrays of the live segments
  made             \* number of decoration objects created so far

vars == <<terrainMeshes, seed, world, scene, nextId, timers, pc, tracked,
          existing, ticks, outcome, healed, initCalls, schedules,
          noiseOffsetX, twin, builds, draws, queries, disposals,
          game, skipped, returned, points, smoothed, terrainBodies,
          decorations, lod, objectPools, children, decorated, made>>

\* what the streaming operations never touch
pools == <<objectPools, children, decorated, made>>

parts == <<points, smoothed, terrainBodies, decorations, lod, pools>>

calls == <<draws, queries, disposals, game, returned, parts>>

aux == <<calls, skipped>>

(***************************************************************************)
(* Deterministic RNG                                                       *)
(***************************************************************************)
\* a * b % 233280 for 0 <= a, b < 233280, the product split so that every
\* intermediate value stays in the 32-bit range
MulMod(a, b) ==
  ((((a * (b \div 1000)) % lcgModulus) * 1000) + a * (b % 1000)) % lcgModulus

\* s reduced into 0..233279
Reduced(s) == ((s % lcgModulus) + lcgModulus) % lcgModulus

\* this.seed = (this.seed * 9301 + 49297) % 233280, where % is the remainder
\* of JavaScript: it has the sign of the dividend. The dividend is negative
\* for s < -5, and the 32-bit range is kept by reducing |s| first
LcgNext(s) ==
  IF s >= 0 - 5
  THEN (MulMod(lcgMultiplier, Reduced(s)) + lcgIncrement) % lcgModulus
  ELSE 0 - ((MulMod(lcgMultiplier, Reduced(0 - s)) + lcgModulus - lcgIncrement)
              % lcgModulus)

seededRandom(s) == LcgNext(s)

\* n successive draws are the affine map s -> (a * s + c) % 233280 that is the
\* n-fold composition of one draw
OneDraw == [a |-> lcgMultiplier, c |-> lcgIncrement]
Compose(f, g) ==
  [a |-> MulMod(f.a, g.a), c |-> (MulMod(f.a, g.c) + f.c) % lcgModulus]

RECURSIVE Draws(_)
Draws(n) ==
  IF n = 0 THEN [a |-> 1, c |-> 0]
  ELSE IF n % 2 = 0 THEN LET h == Draws(n \div 2) IN Compose(h, h)
  ELSE Compose(OneDraw, Draws(n - 1))

Advance(s, n) == (MulMod(Draws(n).a, s) + Draws(n).c) % lcgModulus

(***************************************************************************)
(* Difficulty in units of 1/5000: min(0.99, |startX| / 5000)               *)
(***************************************************************************)
Abs(n) == IF n < 0 THEN 0 - n ELSE n
Min(a, b) == IF a < b THEN a ELSE b
Max(a, b) == IF a < b THEN b ELSE a

Difficulty(startX) == Min(4950, Abs(startX))

\* rand < k/100 for rand = s / 233280
RandBelow(s, pct) == s * 100 < pct * lcgModulus

\* selectChunkType on the drawn value s = this.seed after the draw;
\* the difficulty d is in units of 1/5000
ChunkOf(s, d) ==
  IF d < 750 THEN
    (IF RandBelow(s, 70) THEN "hills" ELSE "plateau")
  ELSE IF d < 1500 THEN
    (IF RandBelow(s, 50) THEN "hills"
     ELSE IF RandBelow(s, 70) THEN "plateau"
     ELSE IF RandBelow(s, 90) THEN "ramp"
     ELSE "washboard")
  ELSE IF d < 2500 THEN
    (IF RandBelow(s, 30) THEN "hills"
     ELSE IF RandBelow(s, 50) THEN "ramp"
     ELSE IF RandBelow(s, 70) THEN "washboard"
     ELSE IF RandBelow(s, 90) THEN "valley"
     ELSE "gap")
  ELSE IF d < 3500 THEN
    (IF RandBelow(s, 20) THEN "hills"
     ELSE IF RandBelow(s, 40) THEN "plateau"
     ELSE IF RandBelow(s, 60) THEN "washboard"
     ELSE IF RandBelow(s, 80) THEN "valley"
     ELSE "gap")
  ELSE
    (IF RandBelow(s, 15) THEN "hills"
     ELSE IF RandBelow(s, 35) THEN "ramp"
     ELSE IF RandBelow(s, 55) THEN "washboard"
     ELSE IF RandBelow(s, 75) THEN "valley"
     ELSE "gap")

\* a selection whose difficulty bands start 0.2 too early
selectChunkTypeEarly(s, d) ==
  [seed |-> seededRandom(s), chunkType |-> ChunkOf(seededRandom(s), d + 1000)]

selectChunkType(s, d) ==
  [seed |-> seededRandom(s), chunkType |-> ChunkOf(seededRandom(s), d)]


(***************************************************************************)
(* Segment builder                                                         *)
(***************************************************************************)
\* isGap of createTerrainSegment: chunkType === 'gap' and
\* 0.3 < i / (nbPoints - 1) < 0.7
isGap(chunkType, i) ==
  chunkType = "gap" /\ 10 * i > 3 * (nbPoints - 1) /\ 10 * i < 7 * (nbPoints - 1)

\* Half of gapWidth = min(3 + min(0.7 * difficulty, 0.6) * 2, 5), in units
\* of 1/50000; d is the difficulty in units of 1/5000
GapHalfWidth(d) == Min(75000 + Min(7 * d, 30000), 125000)

\* generateGap returns null: gapStart <= x < gapEnd, for the local position
\* u = x - startX in units of 1/50000 (the gap is centred at startX + 20)
GapVoid(u, d) ==
  /\ u >= 1000000 - GapHalfWidth(d)
  /\ u < 1000000 + GapHalfWidth(d)

\* local position of sample i, x - startX = i / (nbPoints - 1) * segmentWidth,
\* in units of 1/50000 (rounded down)
SampleOffset(i) == (i * segmentWidth * 50000) \div (nbPoints - 1)

\* points[i].height === null after the sampling loop
HeightIsNull(chunkType, d, i) ==
  isGap(chunkType, i) \/ (chunkType = "gap" /\ GapVoid(SampleOffset(i), d))

NullSamples(chunkType, d) ==
  {i \in 0..(nbPoints - 1) : HeightIsNull(chunkType, d, i)}

(***************************************************************************)
(* Heights.  A height is an integer number of thousandths; a position xm   *)
(* is in thousandths as well.  A segment keeps the samples 0, 1, 28 and 29 *)
(* of its points array: these are the only samples that a neighbouring     *)
(* build reads and the smoothing pass leaves them as generated.            *)
(***************************************************************************)
Null == 0 - 999999        \* height === null
Undefined == 0 - 999998   \* undefined
Untracked == 0 - 999997   \* a non-null sample that the model does not keep
TrackedSamples == {0, 1, nbPoints - 2, nbPoints - 1}

IsHeight(h) == h # Null /\ h # Undefined

\* t * t * (3 - 2 * t), t in thousandths
cubicInterpolation(t) == (((t * t) \div 1000) * (3000 - 2 * t)) \div 1000

\* t * t * t * (t * (t * 6 - 15) + 10), t in thousandths
quinticInterpolation(t) ==
  (((((t * t) \div 1000) * t) \div 1000)
     * (((t * (6 * t - 15000)) \div 1000) + 10000)) \div 1000

\* a * (1 - w) + b * w for a weight w in thousandths
Mix(a, b, w) == (a * (1000 - w) + b * w) \div 1000

\* smoothTransition(t, a, b, 'quintic')
smoothTransition(t, a, b) == Mix(a, b, quinticInterpolation(t))

\* (n - Math.floor(n)) * 2 - 1 for n = Math.sin(h * 37.1 + seed * 0.1) *
\* 43758.5453: the sine hash is replaced by an integer hash of the same
\* argument, h * 371 + seed being ten times h * 37.1 + seed * 0.1
LatticeValue(h, s) == ((((h * 371 + s) % 4001) * 523) % 2001) - 1000

\* r1 + u * (r2 - r1) of noise, for the lattice cell X and u = fade(xf)
NoiseIn(X, u, s) ==
  Mix(LatticeValue((X + (s % 256)) % 256, s),
      LatticeValue((X + 1 + (s % 256)) % 256, s), u)

\* noise(x): value noise on the integer lattice, offset by this.seed % 256
noise(xm, s) == NoiseIn((xm \div 1000) % 256, cubicInterpolation(xm % 1000), s)

\* seedX * frequency, the frequency in thousandths
Scaled(xm, nox, freq) == (((xm + nox * 1000) \div 10) * freq) \div 100

\* improvedNoise(x, 0.05, 3, 0.5, 2.0)
BaseNoise(xm, s, nox) ==
  (noise(Scaled(xm, nox, 50), s) * 1000
   + noise(Scaled(xm, nox, 100), s) * 500
   + noise(Scaled(xm, nox, 200), s) * 250) \div 1750

\* improvedNoise(x, 0.2, 2, 0.3, 2.5)
DetailNoise(xm, s, nox) ==
  (noise(Scaled(xm, nox, 200), s) * 1000
   + noise(Scaled(xm, nox, 500), s) * 300) \div 1300

\* amplitude of generateHills, in thousandths, for a difficulty in 1/5000
HillsAmplitude(d) ==
  Min(1200 + (((Min((d * 6) \div 10, 2500) \div 5) * 13) \div 10), 1800)

\* baseNoise * amplitude + detailNoise * (amplitude * 0.3)
Combined(base, detail, amplitude) ==
  ((base * amplitude) \div 1000)
  + ((detail * ((amplitude * 3) \div 10)) \div 1000)

\* rawHeight of generateHills
RawHeight(xm, d, s, nox) ==
  Combined(BaseNoise(xm, s, nox), DetailNoise(xm, s, nox), HillsAmplitude(d))

\* segment.startX <= x && segment.startX + segmentWidth > x
CoversX(seg, xm) ==
  seg.startX * 1000 <= xm /\ (seg.startX + segmentWidth) * 1000 > xm

\* index of the first segment of the store that covers xm, 0 if none
CoveringIndex(store, xm) ==
  IF \E k \in 1..Len(store) : CoversX(store[k], xm)
  THEN CHOOSE k \in 1..Len(store) :
         /\ CoversX(store[k], xm)
         /\ \A j \in 1..(k - 1) : ~CoversX(store[j], xm)
  ELSE 0

\* points[i].y of a live segment
SampleY(seg, i) ==
  IF HeightIsNull(seg.chunkType, Difficulty(seg.startX), i) THEN 0 - 24000
  ELSE IF i \in TrackedSamples THEN seg.points[i]
  ELSE Untracked

\* the sample of segment k of the store that getTerrainHeightNear reads
NearIn(store, k, xm) ==
  IF k = 0 THEN Undefined
  ELSE SampleY(store[k],
               ((xm - store[k].startX * 1000) * nbPoints)
                  \div (segmentWidth * 1000))

\* getTerrainHeightNear(x)
getTerrainHeightNear(store, xm) == NearIn(store, CoveringIndex(store, xm), xm)

\* previousHeight + delta * smoothFactor when |delta| > maxHeightDelta
Limited(raw, prev) ==
  IF prev # Undefined /\ Abs(raw - prev) > 150
  THEN [limited |-> TRUE,
        h |-> prev + ((raw - prev) * quinticInterpolation(
                        1000 - Min((Abs(raw - prev) * 1000) \div 150, 1000)))
                       \div 1000]
  ELSE [limited |-> FALSE, h |-> raw]

\* the part of generateHills before the border tests: rawHeight, limited
\* against the height found half a unit behind x
HillsLimited(store, xm, d, s, nox) ==
  Limited(RawHeight(xm, d, s, nox), getTerrainHeightNear(store, xm - 500))

\* y1 * (1 - cubic(t)) + y2 * cubic(t) over tracked samples
Interpolated(y1, y2, t) ==
  IF y1 = Untracked \/ y2 = Untracked THEN Untracked
  ELSE Mix(y1, y2, cubicInterpolation(t))

\* position of sample index inside a segment, in thousandths
LocalX(index) == (index * segmentWidth * 1000) \div (nbPoints - 1)

\* getTerrainHeightAt inside a segment, at the local position u
HeightAtSample(seg, u, index) ==
  IF HeightIsNull(seg.chunkType, Difficulty(seg.startX), index) THEN Null
  ELSE Interpolated(SampleY(seg, index), SampleY(seg, index + 1),
                    ((u - LocalX(index)) * 1000)
                       \div (LocalX(index + 1) - LocalX(index)))

HeightIn(seg, u) ==
  HeightAtSample(seg, u, (u * (nbPoints - 1)) \div (segmentWidth * 1000))

\* getTerrainHeightAt with the covering segment k found; for an uncovered x
\* it is generateHills(x, x - 10, x + 10, 0.1), whose border tests never apply
HeightAtIn(store, k, xm, s, nox) ==
  IF k = 0 THEN HillsLimited(store, xm, 500, s, nox).h
  ELSE HeightIn(store[k], xm - store[k].startX * 1000)

\* getTerrainHeightAt(x)
getTerrainHeightAt(store, xm, s, nox) ==
  HeightAtIn(store, CoveringIndex(store, xm), xm, s, nox)

\* a border transition of generateHills: from the neighbour's height to the
\* raw height, unless the neighbour has none
Border(neighbour, raw, w) ==
  IF IsHeight(neighbour) THEN Mix(neighbour, raw, w) ELSE raw

\* generateHills after the limiter
Bordered(core, store, xm, a, b, s, nox) ==
  IF core.limited THEN core.h
  ELSE IF xm - a < 1000
  THEN Border(getTerrainHeightAt(store, a - 100, s, nox), core.h,
              quinticInterpolation(xm - a))
  ELSE IF b - xm < 1000
  THEN Border(getTerrainHeightAt(store, b + 100, s, nox), core.h,
              quinticInterpolation(b - xm))
  ELSE core.h

\* generateHills(x, startX, endX, difficulty); a and b in thousandths
generateHills(store, xm, a, b, d, s, nox) ==
  Bordered(HillsLimited(store, xm, d, s, nox), store, xm, a, b, s, nox)

\* Math.sin(startX * 0.03) * 4 of generatePlateau: the sine is replaced by
\* an integer hash of startX with the same range
PlateauBase(startX) == (((startX + 400000) * 37) % 8001) - 4000

\* a || b of JavaScript on heights: 0 and undefined are falsy
OrElse(h, other) == IF h = Undefined \/ h = 0 THEN other ELSE h

\* generatePlateau at a sample inside one of the two transition zones; the
\* neighbour is read at the position e just outside the segment
PlateauEdge(store, t, e, a, b, base, d, s, nox) ==
  smoothTransition(t,
    OrElse(getTerrainHeightNear(store, e),
           generateHills(store, e, a, b, d, s, nox)),
    base)

generatePlateau(store, xm, a, b, d, s, nox) ==
  IF xm - a < ((b - a) * 2) \div 10
  THEN PlateauEdge(store, ((xm - a) * 1000) \div (((b - a) * 2) \div 10),
                   a - 100, a - segmentWidth * 1000, a,
                   PlateauBase(a \div 1000), d, s, nox)
  ELSE PlateauEdge(store, ((b - xm) * 1000) \div (((b - a) * 2) \div 10),
                   b + 100, b, b + segmentWidth * 1000,
                   PlateauBase(a \div 1000), d, s, nox)

\* adjustedDifficulty * 0.3 with adjustedDifficulty = min(difficulty * 0.7, 0.6)
ReducedDifficulty(d) == (Min((d * 7) \div 10, 3000) * 3) \div 10

\* position of sample i, in thousandths
SampleX(startX, i) == startX * 1000 + LocalX(i)

\* the shaped chunk types call generateHills for the head of the segment
\* with endX = centre - h and for its tail with startX = centre + h, where h
\* is half of gapWidth plus transitionLength (gap), half of rampWidth (ramp),
\* of washboardWidth (washboard) or of valleyWidth (valley), in thousandths
ZoneHalfWidth(chunkType, d) ==
  CASE chunkType = "gap" -> (GapHalfWidth(d) \div 50) + 6000
    [] chunkType = "ramp" -> 12000
    [] chunkType = "washboard" -> 14000
    [] OTHER -> 16000

\* startX and endX that the generator of a chunk type hands to generateHills
\* for sample i
HillsFrom(startX, chunkType, d, i) ==
  IF chunkType = "hills" \/ i < 2 THEN startX * 1000
  ELSE startX * 1000 + ((segmentWidth * 1000) \div 2)
       + ZoneHalfWidth(chunkType, d)

HillsTo(startX, chunkType, d, i) ==
  IF chunkType = "hills" \/ i >= 2 THEN (startX + segmentWidth) * 1000
  ELSE startX * 1000 + ((segmentWidth * 1000) \div 2)
       - ZoneHalfWidth(chunkType, d)

\* the generator call of the sampling loop for one of the tracked samples
GeneratedY(store, startX, chunkType, d, i, s, nox) ==
  IF chunkType = "plateau"
  THEN generatePlateau(store, SampleX(startX, i), startX * 1000,
                       (startX + segmentWidth) * 1000, d, s, nox)
  ELSE generateHills(store, SampleX(startX, i),
                     HillsFrom(startX, chunkType, d, i),
                     HillsTo(startX, chunkType, d, i),
                     IF chunkType = "hills" THEN d ELSE ReducedDifficulty(d),
                     s, nox)
       + (IF chunkType = "gap" THEN 500 ELSE 0)

\* previousEndHeight: the last sample of the last element of the store
previousEndHeight(store) ==
  IF Len(store) > 0 THEN store[Len(store)].points[nbPoints - 1] ELSE Null

\* samples 1..4 are blended with previousEndHeight, with blendFactor
\* 1 - quinticInterpolation(i / 5)
Blended(y, i, prevEnd) ==
  IF i > 0 /\ i < 5 /\ prevEnd # Null
  THEN Mix(prevEnd, y, quinticInterpolation((i * 1000) \div 5))
  ELSE y

\* the sample as stored
SampledY(store, startX, chunkType, d, i, s, nox) ==
  Blended(GeneratedY(store, startX, chunkType, d, i, s, nox), i,
          previousEndHeight(store))

\* createBackgroundPhysics: one seededRandom draw per side, depth level and
\* subsegment that has at least one sample with a height
BackgroundDraws(nulls) ==
  2 * 3 * Cardinality({k \in 0..2 :
        \E j \in ((k * nbPoints) \div 3)..((((k + 1) * nbPoints) \div 3) - 1) :
           j \notin nulls})

\* terrainMultiplier of addTerrainDecorations, times 10
TerrainMultiplier(chunkType) ==
  CASE chunkType = "hills" -> 18
    [] chunkType = "plateau" -> 15
    [] chunkType = "ramp" -> 8
    [] chunkType = "washboard" -> 6
    [] chunkType = "valley" -> 10
    [] OTHER -> 12

\* the five zones: width, densityFactor times 10, decoration types
DecorationZones ==
  << [w |-> 6, df |-> 3, rock |-> TRUE, tree |-> FALSE, sign |-> FALSE],
     [w |-> 5, df |-> 10, rock |-> TRUE, tree |-> TRUE, sign |-> TRUE],
     [w |-> 5, df |-> 10, rock |-> TRUE, tree |-> TRUE, sign |-> TRUE],
     [w |-> 15, df |-> 20, rock |-> TRUE, tree |-> TRUE, sign |-> FALSE],
     [w |-> 15, df |-> 20, rock |-> TRUE, tree |-> TRUE, sign |-> FALSE] >>

\* rockCount = treeCount = floor(nbPoints * 0.1 * df * mult * (w / 5)),
\* signCount = floor(nbPoints * 0.2 * df * mult * (w / 10))
ZoneCandidates(z, chunkType) ==
  LET m == TerrainMultiplier(chunkType)
      n == Min(nbPoints, 40)
      rt == (n * z.df * m * z.w) \div 5000
      sg == (n * 2 * z.df * m * z.w) \div 10000
  IN (IF z.rock THEN rt ELSE 0) + (IF z.tree THEN rt ELSE 0)
     + (IF z.sign THEN sg ELSE 0)

\* availablePoints: samples 3..nbPoints-4 that have a height
AvailablePoints(nulls) == {i \in 3..(nbPoints - 4) : i \notin nulls}

\* a decoration pass that draws one more point for each decoration placed
DecorationDrawsPlaced(chunkType, nulls, u) ==
  IF AvailablePoints(nulls) = {} THEN 0
  ELSE ZoneCandidates(DecorationZones[1], chunkType) + u

\* getRandomPoint is called once per candidate and draws once unless there
\* is no available point; the Math.random() placement test comes after it
DecorationDraws(chunkType, nulls, u) ==
  IF AvailablePoints(nulls) = {} THEN 0
  ELSE ZoneCandidates(DecorationZones[1], chunkType)
     + ZoneCandidates(DecorationZones[2], chunkType)
     + ZoneCandidates(DecorationZones[3], chunkType)
     + ZoneCandidates(DecorationZones[4], chunkType)
     + ZoneCandidates(DecorationZones[5], chunkType)

\* Outcomes of the Math.random() placement tests of one build: the number of
\* candidates that found room
Unseeded == {0, 2}

\* createTerrainSegment(startX): the new segment and the RNG state after it;
\* u is the outcome of the unseeded draws, the segment records the number of
\* decorations placed
Segment(store, sel, nulls, d, nox, startX, id, u) ==
  [segment |->
     [id |-> id, startX |-> startX, chunkType |-> sel.chunkType,
      points |-> [i \in TrackedSamples |->
                    SampledY(store, startX, sel.chunkType, d, i, sel.seed, nox)],
      decorations |-> Min(u, DecorationDraws(sel.chunkType, nulls, u))],
   seed |-> Advance(sel.seed, BackgroundDraws(nulls)
                              + DecorationDraws(sel.chunkType, nulls, u))]

Selected(store, sel, d, nox, startX, id, u) ==
  Segment(store, sel, NullSamples(sel.chunkType, d), d, nox, startX, id, u)

createTerrainSegment(store, s, nox, startX, id, u) ==
  Selected(store, selectChunkType(s, Difficulty(startX)), Difficulty(startX),
           nox, startX, id, u)

\* the instance after one createTerrainSegment(startX) call
Built(t, nox, startX) ==
  LET b == createTerrainSegment(t.store, t.seed, nox, startX, t.nextId, 0)
  IN [store |-> Append(t.store, b.segment), seed |-> b.seed,
      nextId |-> t.nextId + 1]

\* a run of createTerrainSegment calls at the start positions of xs, in
\* order; each call works on the value that the call before it left
RECURSIVE BuildRun(_, _, _)
BuildRun(t, nox, xs) ==
  IF xs = <<>> THEN t
  ELSE CHOOSE r \in {BuildRun(next, nox, Tail(xs)) :
                       next \in {Built(t, nox, Head(xs))}} : TRUE

BuildAll(store, s, nox, id, xs) ==
  BuildRun([store |-> store, seed |-> s, nextId |-> id], nox, xs)

Ids(segs) == {segs[k].id : k \in 1..Len(segs)}
StartXs(store) == {store[k].startX : k \in 1..Len(store)}

\* initialize(): initialSegments segments from index startOffset upwards
InitialStartXs ==
  [k \in 1..initialSegments |-> (startOffset + k - 1) * segmentWidth]


(***************************************************************************)
(* Tracked position                                                        *)
(***************************************************************************)
\* typeof vehiclePosition.x === 'number' holds of NaN and of the infinities
IsNumber(p) == p.kind \in {"num", "nan", "posinf", "neginf"}

\* the validity check of update: the position is present, x is a number,
\* and Math.floor(x / segmentWidth) is neither NaN nor negative
PassesCheck(p) ==
  /\ IsNumber(p)
  /\ p.kind # "nan"
  /\ p.kind # "neginf"
  /\ (p.kind = "num" => p.v \div segmentWidth >= 0)

\* segment.startX <= x && segment.startX + segmentWidth > x
Covers(seg, p) ==
  /\ p.kind = "num"
  /\ seg.startX <= p.v
  /\ seg.startX + segmentWidth > p.v

\* lastSegmentIndex >= currentSegmentIndex + segmentsAhead
ReachedAhead(lastIdx, p) ==
  p.kind = "num" /\ lastIdx >= (p.v \div segmentWidth) + segmentsAhead

\* currentSegmentIndex > segmentsBehind
PastStart(p) ==
  p.kind = "posinf" \/ (p.v \div segmentWidth) > segmentsBehind

\* firstSegmentIndex < currentSegmentIndex - segmentsBehind
FarBehind(firstIdx, p) ==
  p.kind = "posinf" \/ firstIdx < (p.v \div segmentWidth) - segmentsBehind

(***************************************************************************)
(* Store helpers                                                           *)
(***************************************************************************)
\* the duplicate scan of update keeps the first segment of each startX
IsFirstOccurrence(store, k) ==
  \A j \in 1..(k - 1) : store[j].startX # store[k].startX

uniqueSegments(store) ==
  SelectSeq([k \in 1..Len(store) |-> [seg |-> store[k],
                                      first |-> IsFirstOccurrence(store, k)]],
            LAMBDA e : e.first)

Unwrap(entries) == [k \in 1..Len(entries) |-> entries[k].seg]

\* a duplicate scan that hands no segment to removeSegment
DuplicateIdsKept(store) == {}

\* identities of the segments that the duplicate scan hands to removeSegment
DuplicateIds(store) ==
  {store[k].id : k \in {j \in 1..Len(store) : ~IsFirstOccurrence(store, j)}}

NoDuplicateStartX(store) ==
  \A j, k \in 1..Len(store) : j # k => store[j].startX # store[k].startX

lastSegmentIndex(store) ==
  IF Len(store) > 0 THEN store[Len(store)].startX \div segmentWidth ELSE 0 - 1

nextStartX(store) ==
  IF Len(store) > 0 THEN store[Len(store)].startX + segmentWidth ELSE 0

(***************************************************************************)
(* Construction and loading                                                *)
(***************************************************************************)
Constructed(s0) == BuildAll(<<>>, s0, s0 % 10000, 1, InitialStartXs)

\* no direct call has been made
Counters ==
  /\ draws = 0
  /\ queries = 0
  /\ disposals = 0
  /\ skipped = [kind |-> "none", v |-> 0]
  /\ returned = [kind |-> "none", x |-> 0, v |-> 0, covered |-> FALSE]

\* the Terrain is driven directly, no Game owns it
NoGame ==
  [stage |-> "none", isRunning |-> FALSE, created |-> <<>>, seed |-> 0,
   toggles |-> 0, resets |-> 0]

\* no array is being smoothed
NoSmoothing ==
  /\ points = <<>>
  /\ smoothed = [done |-> FALSE, original |-> <<>>, windows |-> {}]

\* no build has pushed a body for the array
NoBodies == terrainBodies = [by |-> "none", bodies |-> <<>>]

\* no segment has been handed to applyLOD
NoLod ==
  /\ decorations = <<>>
  /\ lod = [by |-> "none", distance |-> 0, calls |-> 0]

\* the decoration objects are not followed
NoPools ==
  /\ objectPools = [rock |-> <<>>, tree |-> <<>>, sign |-> <<>>]
  /\ children = {}
  /\ decorated = <<>>
  /\ made = 0

NoParts == NoSmoothing /\ NoBodies /\ NoLod /\ NoPools

AuxInit == Counters /\ game = NoGame /\ NoParts

InitFor(s0) ==
  \E c \in {Constructed(s0)} :
    /\ terrainMeshes = c.store
    /\ seed = c.seed
    /\ world = Ids(c.store)
    /\ scene = Ids(c.store)
    /\ nextId = c.nextId
    /\ timers = <<>>
    /\ pc = "idle"
    /\ tracked = Num(0)
    /\ existing = {}
    /\ ticks = 0
    /\ outcome = "none"
    /\ healed = FALSE
    /\ initCalls = 0
    /\ schedules = 0
    /\ noiseOffsetX = s0 % 10000
    /\ twin = [terrainMeshes |-> c.store, seed |-> c.seed, nextId |-> c.nextId]
    /\ builds = 0
    /\ AuxInit

Init == \E s0 \in GameSeeds : InitFor(s0)

\* Game.initializeTerrainBase calls initialize() on the Terrain it has just
\* constructed: the creation loop runs a second time
Initialize ==
  /\ pc = "idle"
  /\ initCalls = 0
  /\ ticks = 0
  /\ schedules = 0
  /\ \E b \in {BuildAll(terrainMeshes, seed, noiseOffsetX, nextId,
                          InitialStartXs)} :
        /\ terrainMeshes' = b.store
        /\ seed' = b.seed
        /\ nextId' = b.nextId
        /\ world' = world \cup (Ids(b.store) \ Ids(terrainMeshes))
        /\ scene' = scene \cup (Ids(b.store) \ Ids(terrainMeshes))
  /\ initCalls' = initCalls + 1
  /\ outcome' = "none"
  /\ UNCHANGED <<timers, pc, tracked, existing, ticks, healed, schedules,
                 noiseOffsetX, twin, builds>>
  /\ UNCHANGED aux

\* generateAdditionalSegments(): schedules the first batch unless the store
\* already holds totalSegments segments
GenerateAdditionalSegments ==
  /\ pc = "idle"
  /\ schedules < MaxSchedules
  /\ schedules' = schedules + 1
  /\ timers' = IF Max(0, totalSegments - Len(terrainMeshes)) <= 0
               THEN timers
               ELSE Append(timers, batchFirstIndex)
  /\ outcome' = "none"
  /\ UNCHANGED <<terrainMeshes, seed, world, scene, nextId, pc, tracked,
                 existing, ticks, healed, initCalls, noiseOffsetX, twin,
                 builds>>
  /\ UNCHANGED aux

\* start positions of one batch that no live segment owns
BatchMissing(store, currentIndex) ==
  SelectSeq([i \in 1..batchSize |-> (currentIndex + i - 1) * segmentWidth],
            LAMBDA x : x \notin StartXs(store))

\* generateNextBatch, run by the timer
GenerateNextBatch ==
  /\ pc = "idle"
  /\ timers # <<>>
  /\ LET currentIndex == Head(timers)
         missing == BatchMissing(terrainMeshes, currentIndex)
         b == BuildAll(terrainMeshes, seed, noiseOffsetX, nextId, missing)
     IN /\ terrainMeshes' = b.store
        /\ seed' = b.seed
        /\ nextId' = b.nextId
        /\ world' = world \cup (Ids(b.store) \ Ids(terrainMeshes))
        /\ scene' = scene \cup (Ids(b.store) \ Ids(terrainMeshes))
        /\ timers' = IF currentIndex + batchSize < totalSegments
                        /\ Len(missing) > 0
                     THEN Append(Tail(timers), currentIndex + batchSize)
                     ELSE Tail(timers)
  /\ outcome' = "none"
  /\ UNCHANGED <<pc, tracked, existing, ticks, healed, initCalls, schedules,
                 noiseOffsetX, twin, builds>>
  /\ UNCHANGED aux


(***************************************************************************)
(* update(vehiclePosition)                                                 *)
(***************************************************************************)
\* the validity check; on a position that passes it, the duplicate scan
UpdateAt(p) ==
  /\ tracked' = p
  /\ IF ~PassesCheck(p)
     THEN /\ outcome' = "rejected"
          /\ UNCHANGED <<terrainMeshes, seed, world, scene, nextId,
                         timers, pc, existing, ticks, healed>>
     ELSE /\ existing' = StartXs(terrainMeshes)
          /\ terrainMeshes' = Unwrap(uniqueSegments(terrainMeshes))
          /\ world' = world \ DuplicateIds(terrainMeshes)
          /\ scene' = scene \ DuplicateIds(terrainMeshes)
          /\ pc' = "generate"
          /\ ticks' = ticks + 1
          /\ outcome' = "running"
          /\ healed' = FALSE
          /\ UNCHANGED <<seed, nextId, timers>>

UpdateBegin ==
  /\ pc = "idle"
  /\ ticks < MaxTicks
  /\ \E p \in Positions : UpdateAt(p)
  /\ UNCHANGED <<initCalls, schedules, noiseOffsetX, twin, builds>>
  /\ UNCHANGED aux

\* one iteration of the generate-ahead loop: leave the loop, build the next
\* segment, or (the start position is already owned) skip it; the skip adds
\* segmentWidth to the iteration's own nextStartX, which the next iteration
\* declares and computes anew
GenerateAhead ==
  /\ pc = "generate"
  /\ IF ReachedAhead(lastSegmentIndex(terrainMeshes), tracked)
     THEN /\ pc' = "evict"
          /\ UNCHANGED <<terrainMeshes, seed, world, scene, nextId, existing,
                         skipped>>
     ELSE IF nextStartX(terrainMeshes) \notin existing
     THEN /\ nextStartX(terrainMeshes) \div segmentWidth <= MaxSegIdx
          /\ LET b == createTerrainSegment(terrainMeshes, seed, noiseOffsetX,
                                           nextStartX(terrainMeshes), nextId, 0)
             IN /\ terrainMeshes' = Append(terrainMeshes, b.segment)
                /\ seed' = b.seed
                /\ world' = world \cup {nextId}
                /\ scene' = scene \cup {nextId}
                /\ nextId' = nextId + 1
                /\ existing' = existing \cup {nextStartX(terrainMeshes)}
          /\ UNCHANGED <<pc, skipped>>
     ELSE /\ skipped' = Num(nextStartX(terrainMeshes))
          /\ UNCHANGED <<terrainMeshes, seed, world, scene, nextId, existing,
                         pc>>
  /\ UNCHANGED <<timers, tracked, ticks, outcome, healed, initCalls, schedules,
                 noiseOffsetX, twin, builds>>
  /\ UNCHANGED calls

\* an evict-behind loop that removes nothing
EvictBehindKeeping ==
  /\ pc = "evict"
  /\ pc' = "heal"
  /\ UNCHANGED <<terrainMeshes, world, scene, existing>>
  /\ UNCHANGED <<seed, nextId, timers, tracked, ticks, outcome, healed,
                 initCalls, schedules, noiseOffsetX, twin, builds>>
  /\ UNCHANGED aux

\* one iteration of the evict-behind loop
EvictBehind ==
  /\ pc = "evict"
  /\ IF /\ Len(terrainMeshes) > segmentsAhead + segmentsBehind
        /\ PastStart(tracked)
        /\ FarBehind(Head(terrainMeshes).startX \div segmentWidth, tracked)
     THEN /\ terrainMeshes' = Tail(terrainMeshes)
          /\ world' = world \ {Head(terrainMeshes).id}
          /\ scene' = scene \ {Head(terrainMeshes).id}
          /\ existing' = existing \ {Head(terrainMeshes).startX}
          /\ UNCHANGED pc
     ELSE /\ pc' = "heal"
          /\ UNCHANGED <<terrainMeshes, world, scene, existing>>
  /\ UNCHANGED <<seed, nextId, timers, tracked, ticks, outcome, healed,
                 initCalls, schedules, noiseOffsetX, twin, builds>>
  /\ UNCHANGED aux

\* the start position after the tracked x
AlignedStartXAbove(p) == ((p.v \div segmentWidth) + 1) * segmentWidth

\* floor-aligned start position of the tracked x
AlignedStartX(p) == (p.v \div segmentWidth) * segmentWidth

\* self-heal, then level of detail and the info display; the tick returns
SelfHeal ==
  /\ pc = "heal"
  /\ tracked.kind = "num"
  /\ IF /\ ~(\E k \in 1..Len(terrainMeshes) : Covers(terrainMeshes[k], tracked))
        /\ AlignedStartX(tracked) \notin existing
     THEN LET b == createTerrainSegment(terrainMeshes, seed, noiseOffsetX,
                                        AlignedStartX(tracked), nextId, 0)
          IN /\ terrainMeshes' = Append(terrainMeshes, b.segment)
             /\ seed' = b.seed
             /\ world' = world \cup {nextId}
             /\ scene' = scene \cup {nextId}
             /\ nextId' = nextId + 1
             /\ healed' = TRUE
     ELSE UNCHANGED <<terrainMeshes, seed, world, scene, nextId, healed>>
  /\ pc' = "idle"
  /\ outcome' = "completed"
  /\ existing' = {}
  /\ UNCHANGED <<timers, tracked, ticks, initCalls, schedules, noiseOffsetX,
                 twin, builds>>
  /\ UNCHANGED aux

Next ==
  \/ Initialize
  \/ GenerateAdditionalSegments
  \/ GenerateNextBatch
  \/ UpdateBegin
  \/ GenerateAhead
  \/ EvictBehind
  \/ SelfHeal

Spec == Init /\ [][Next]_vars

(***************************************************************************)
(* Direct builds: createTerrainSegment(startX) called from outside update, *)
(* as the forced regeneration of the game loop does, on two instances that *)
(* were constructed with the same seed and differ only in what             *)
(* Math.random() returns to them.                                          *)
(***************************************************************************)
InitBuild == \E s0 \in BuildSeeds : InitFor(s0)

CallCreateTerrainSegment ==
  /\ pc = "idle"
  /\ builds < MaxBuilds
  /\ \E x \in BuildStartXs, u1, u2 \in Unseeded :
       LET b == createTerrainSegment(terrainMeshes, seed, noiseOffsetX, x,
                                     nextId, u1)
           t == createTerrainSegment(twin.terrainMeshes, twin.seed,
                                     noiseOffsetX, x, twin.nextId, u2)
       IN /\ terrainMeshes' = Append(terrainMeshes, b.segment)
          /\ seed' = b.seed
          /\ world' = world \cup {nextId}
          /\ scene' = scene \cup {nextId}
          /\ nextId' = nextId + 1
          /\ twin' = [terrainMeshes |-> Append(twin.terrainMeshes, t.segment),
                      seed |-> t.seed,
                      nextId |-> twin.nextId + 1]
  /\ builds' = builds + 1
  /\ outcome' = "none"
  /\ UNCHANGED <<timers, pc, tracked, existing, ticks, healed, initCalls,
                 schedules, noiseOffsetX>>
  /\ UNCHANGED aux

\* segments of a store that do not start at x
Without(store, x) == SelectSeq(store, LAMBDA seg : seg.startX # x)

\* the game filters the segments of a zone out of terrainMeshes and hands
\* each of them to removeSegment
ForcedRemoval ==
  /\ pc = "idle"
  /\ \E x \in RemovedStartXs :
       /\ x \in StartXs(terrainMeshes)
       /\ terrainMeshes' = Without(terrainMeshes, x)
       /\ world' = world \ (Ids(terrainMeshes) \ Ids(Without(terrainMeshes, x)))
       /\ scene' = scene \ (Ids(terrainMeshes) \ Ids(Without(terrainMeshes, x)))
       /\ twin' = [twin EXCEPT !.terrainMeshes = Without(twin.terrainMeshes, x)]
  /\ outcome' = "none"
  /\ UNCHANGED <<seed, nextId, timers, pc, tracked, existing, ticks, healed,
                 initCalls, schedules, noiseOffsetX, builds>>
  /\ UNCHANGED aux

NextBuild ==
  \/ CallCreateTerrainSegment
  \/ ForcedRemoval

SpecBuild == InitBuild /\ [][NextBuild]_vars

(***************************************************************************)
(* The generator alone: a Terrain whose constructor has just stored the    *)
(* seed the game handed to it (this.seed = seed), before any segment       *)
(* exists. The seed comes from a number input read with parseInt, so it    *)
(* may be negative or lie above the modulus.                               *)
(***************************************************************************)
\* a % n as JavaScript computes it, for n > 0
jsRemainder(a, n) == IF a >= 0 THEN a % n ELSE 0 - ((0 - a) % n)

\* the Terrain between the assignment of this.seed and the first segment
FreshTerrain(s0) ==
  /\ terrainMeshes = <<>>
  /\ seed = s0
  /\ world = {}
  /\ scene = {}
  /\ nextId = 1
  /\ timers = <<>>
  /\ pc = "idle"
  /\ tracked = Num(0)
  /\ existing = {}
  /\ ticks = 0
  /\ outcome = "none"
  /\ healed = FALSE
  /\ initCalls = 0
  /\ schedules = 0
  /\ noiseOffsetX = jsRemainder(s0, 10000)
  /\ twin = [terrainMeshes |-> <<>>, seed |-> s0, nextId |-> 1]
  /\ builds = 0

Fresh(s0) == FreshTerrain(s0) /\ AuxInit

InitRng == \E s0 \in RngSeeds : Fresh(s0)

\* one call of seededRandom(): the value returned is this.seed / 233280,
\* kept as its numerator
SeededRandom ==
  /\ draws < MaxDraws
  /\ seed' = seededRandom(seed)
  /\ returned' = [kind |-> "num", x |-> 0, v |-> seededRandom(seed),
                  covered |-> FALSE]
  /\ draws' = draws + 1
  /\ UNCHANGED <<queries, disposals, game, skipped, parts>>
  /\ UNCHANGED <<terrainMeshes, world, scene, nextId, timers, pc, tracked,
                 existing, ticks, outcome, healed, initCalls, schedules,
                 noiseOffsetX, twin, builds>>

NextRng == SeededRandom

SpecRng == InitRng /\ [][NextRng]_vars

(***************************************************************************)
(* Noise and height queries on one Terrain, between the builds that        *)
(* update or the game's forced regeneration make on it                     *)
(***************************************************************************)
\* createTerrainSegment(startX) on this instance
BuildSegment ==
  /\ pc = "idle"
  /\ builds < MaxQueryBuilds
  /\ \E x \in BuildStartXs, u \in Unseeded :
       \E b \in {createTerrainSegment(terrainMeshes, seed, noiseOffsetX, x,
                                      nextId, u)} :
          /\ terrainMeshes' = Append(terrainMeshes, b.segment)
          /\ seed' = b.seed
          /\ world' = world \cup {nextId}
          /\ scene' = scene \cup {nextId}
          /\ nextId' = nextId + 1
  /\ builds' = builds + 1
  /\ outcome' = "none"
  /\ UNCHANGED <<timers, pc, tracked, existing, ticks, healed, initCalls,
                 schedules, noiseOffsetX, twin, draws, queries, disposals,
                 game, skipped, returned, parts>>

\* what a query leaves alone in the model besides the Terrain's own state
QueryFrame ==
  UNCHANGED <<nextId, timers, pc, tracked, existing, ticks, outcome, healed,
              initCalls, schedules, noiseOffsetX, twin, builds, draws,
              disposals, game, skipped, parts>>

\* noise(x)
CallNoise ==
  /\ pc = "idle"
  /\ queries < MaxQueries
  /\ \E xm \in QueryXs :
       returned' = [kind |-> "noise", x |-> xm, v |-> noise(xm, seed),
                    covered |-> FALSE]
  /\ queries' = queries + 1
  /\ UNCHANGED <<terrainMeshes, seed, world, scene>>
  /\ QueryFrame

\* getTerrainHeightAt(x) that persists the segment of an uncovered x
GetTerrainHeightAtPersisting ==
  /\ pc = "idle"
  /\ queries < MaxQueries
  /\ \E xm \in QueryXs :
       /\ returned' = [kind |-> "at", x |-> xm,
                       v |-> getTerrainHeightAt(terrainMeshes, xm, seed,
                                                noiseOffsetX),
                       covered |-> CoveringIndex(terrainMeshes, xm) # 0]
       /\ IF CoveringIndex(terrainMeshes, xm) # 0
          THEN UNCHANGED <<terrainMeshes, seed, world, scene>>
          ELSE \E b \in {createTerrainSegment(
                           terrainMeshes, seed, noiseOffsetX,
                           ((xm \div 1000) \div segmentWidth) * segmentWidth,
                           nextId, 0)} :
                 /\ terrainMeshes' = Append(terrainMeshes, b.segment)
                 /\ seed' = b.seed
                 /\ world' = world \cup {nextId}
                 /\ scene' = scene \cup {nextId}
  /\ queries' = queries + 1
  /\ QueryFrame

\* getTerrainHeightAt(x)
GetTerrainHeightAt ==
  /\ pc = "idle"
  /\ queries < MaxQueries
  /\ \E xm \in QueryXs :
       returned' = [kind |-> "at", x |-> xm,
                    v |-> getTerrainHeightAt(terrainMeshes, xm, seed,
                                             noiseOffsetX),
                    covered |-> CoveringIndex(terrainMeshes, xm) # 0]
  /\ queries' = queries + 1
  /\ UNCHANGED <<terrainMeshes, seed, world, scene>>
  /\ QueryFrame

\* getTerrainHeightNear(x)
GetTerrainHeightNear ==
  /\ pc = "idle"
  /\ queries < MaxQueries
  /\ \E xm \in QueryXs :
       returned' = [kind |-> "near", x |-> xm,
                    v |-> getTerrainHeightNear(terrainMeshes, xm),
                    covered |-> CoveringIndex(terrainMeshes, xm) # 0]
  /\ queries' = queries + 1
  /\ UNCHANGED <<terrainMeshes, seed, world, scene>>
  /\ QueryFrame

NextQuery ==
  \/ BuildSegment
  \/ CallNoise
  \/ GetTerrainHeightAt
  \/ GetTerrainHeightNear

SpecQuery == InitBuild /\ [][NextQuery]_vars

(***************************************************************************)
(* dispose(): the Terrain is streamed and scheduled as before until the    *)
(* game disposes of it; from then on the game calls nothing but dispose,   *)
(* and only the timers that are still pending run.                         *)
(***************************************************************************)
\* dispose() that hands the meshes back but leaves the bodies in the world
DisposeKeepingBodies ==
  /\ pc = "idle"
  /\ disposals < MaxDisposals
  /\ terrainMeshes' = <<>>
  /\ scene' = scene \ Ids(terrainMeshes)
  /\ disposals' = disposals + 1
  /\ outcome' = "disposed"
  /\ UNCHANGED <<seed, world, nextId, timers, pc, tracked, existing, ticks,
                 healed, initCalls, schedules, noiseOffsetX, twin, builds,
                 draws, queries, game, skipped, returned, parts>>

\* dispose(): removeSegment on a copy of the store, then the store is
\* replaced by an empty array; no timer is cleared
Dispose ==
  /\ pc = "idle"
  /\ disposals < MaxDisposals
  /\ terrainMeshes' = <<>>
  /\ world' = world \ Ids(terrainMeshes)
  /\ scene' = scene \ Ids(terrainMeshes)
  /\ disposals' = disposals + 1
  /\ outcome' = "disposed"
  /\ UNCHANGED <<seed, nextId, timers, pc, tracked, existing, ticks, healed,
                 initCalls, schedules, noiseOffsetX, twin, builds, draws,
                 queries, game, skipped, returned, parts>>

InitializeLive == disposals = 0 /\ Initialize
GenerateAdditionalSegmentsLive == disposals = 0 /\ GenerateAdditionalSegments
UpdateBeginLive == disposals = 0 /\ ticks < MaxLiveTicks /\ UpdateBegin

NextDispose ==
  \/ InitializeLive
  \/ GenerateAdditionalSegmentsLive
  \/ GenerateNextBatch
  \/ UpdateBeginLive
  \/ GenerateAhead
  \/ EvictBehind
  \/ SelfHeal
  \/ Dispose

SpecDispose == Init /\ [][NextDispose]_vars

(***************************************************************************)
(* Failures inside the builder. One of the constructions that              *)
(* createTerrainSegment performs throws:                                   *)
(*   mesh        createTerrainMeshPart, before anything joins the scene    *)
(*   barrier     createSideBarriers, at its first addBody                  *)
(*   surface     createPhysicsSegment, after the barriers joined the world *)
(*   background  createBackgroundPhysics, inside its own try               *)
(*   decoration  addTerrainDecorations, inside its own try                 *)
(* createTerrainSegment, createTerrainMeshPart, createPhysicsForSegment,   *)
(* createSideBarriers and createPhysicsSegment have no try of their own.   *)
(***************************************************************************)
Faults == {"mesh", "barrier", "surface", "background", "decoration"}

\* the exception leaves createTerrainSegment
Throws(f) == f \in {"mesh", "barrier", "surface"}

\* the meshes were added to the scene before the failure
MeshesAdded(f) == f # "mesh"

\* some body was added to the physics world before the failure
BodiesAdded(f) == f \in {"surface", "background", "decoration"}

\* draws made after selectChunkType when construction f fails at its start
DrawsUnderFault(chunkType, nulls, f, u) ==
  CASE f = "background" -> DecorationDraws(chunkType, nulls, u)
    [] f = "decoration" -> BackgroundDraws(nulls)
    [] OTHER -> 0

SeedUnderFault(sel, d, f, u) ==
  Advance(sel.seed,
          DrawsUnderFault(sel.chunkType, NullSamples(sel.chunkType, d), f, u))

\* this.seed after a createTerrainSegment(startX) in which f fails
seedAfterFault(s, startX, f, u) ==
  SeedUnderFault(selectChunkType(s, Difficulty(startX)), Difficulty(startX),
                 f, u)

\* the segment that a build with a contained failure appends
segmentAfterFault(store, s, nox, startX, id, f) ==
  [createTerrainSegment(store, s, nox, startX, id, 0).segment
     EXCEPT !.decorations = 0]

\* the effect of one createTerrainSegment(startX) with failure f on the
\* store, the generator, the physics world and the scene
BuildUnderFault(startX, f) ==
  /\ terrainMeshes' =
       IF Throws(f) THEN terrainMeshes
       ELSE Append(terrainMeshes,
                   segmentAfterFault(terrainMeshes, seed, noiseOffsetX, startX,
                                     nextId, f))
  /\ seed' = seedAfterFault(seed, startX, f, 0)
  /\ scene' = IF MeshesAdded(f) THEN scene \cup {nextId} ELSE scene
  /\ world' = IF BodiesAdded(f) THEN world \cup {nextId} ELSE world
  /\ nextId' = nextId + 1

\* createTerrainSegment(startX) called by the game while a construction fails
CreateTerrainSegmentFailing ==
  /\ pc = "idle"
  /\ builds < MaxFaultBuilds
  /\ \E x \in BuildStartXs, f \in Faults :
       /\ BuildUnderFault(x, f)
       /\ returned' = [kind |-> IF Throws(f) THEN "threw" ELSE "segment",
                       x |-> x, v |-> 0, covered |-> FALSE]
  /\ builds' = builds + 1
  /\ outcome' = "none"
  /\ UNCHANGED <<timers, pc, tracked, existing, ticks, healed, initCalls,
                 schedules, noiseOffsetX, twin, draws, queries, disposals,
                 game, skipped, parts>>

UpdateBeginFaulty == ticks < MaxFaultTicks /\ UpdateBegin

\* an iteration of the generate-ahead loop whose build fails: an exception
\* that leaves the builder is caught by the try around the loop, which ends
GenerateAheadFailing ==
  /\ pc = "generate"
  /\ ~ReachedAhead(lastSegmentIndex(terrainMeshes), tracked)
  /\ nextStartX(terrainMeshes) \notin existing
  /\ nextStartX(terrainMeshes) \div segmentWidth <= MaxSegIdx
  /\ builds < MaxFaultBuilds
  /\ \E f \in Faults :
       /\ BuildUnderFault(nextStartX(terrainMeshes), f)
       /\ IF Throws(f)
          THEN pc' = "evict" /\ UNCHANGED existing
          ELSE /\ existing' = existing \cup {nextStartX(terrainMeshes)}
               /\ UNCHANGED pc
  /\ builds' = builds + 1
  /\ UNCHANGED <<timers, tracked, ticks, outcome, healed, initCalls, schedules,
                 noiseOffsetX, twin>>
  /\ UNCHANGED aux

\* self-heal whose build fails: an exception that leaves the builder reaches
\* the catch of the whole tick, past applyLODToSegments and updateTerrainInfo
SelfHealFailing ==
  /\ pc = "heal"
  /\ tracked.kind = "num"
  /\ ~(\E k \in 1..Len(terrainMeshes) : Covers(terrainMeshes[k], tracked))
  /\ AlignedStartX(tracked) \notin existing
  /\ builds < MaxFaultBuilds
  /\ \E f \in Faults :
       /\ BuildUnderFault(AlignedStartX(tracked), f)
       /\ outcome' = IF Throws(f) THEN "aborted" ELSE "completed"
       /\ healed' = ~Throws(f)
  /\ pc' = "idle"
  /\ existing' = {}
  /\ builds' = builds + 1
  /\ UNCHANGED <<timers, tracked, ticks, initCalls, schedules, noiseOffsetX,
                 twin>>
  /\ UNCHANGED aux

NextFault ==
  \/ CreateTerrainSegmentFailing
  \/ UpdateBeginFaulty
  \/ GenerateAhead
  \/ GenerateAheadFailing
  \/ EvictBehind
  \/ SelfHeal
  \/ SelfHealFailing

SpecFault == Init /\ [][NextFault]_vars

(***************************************************************************)
(* The Game and its staged loading. The constructor builds the scene, the  *)
(* main camera and a first physics world, starts the animate loop and      *)
(* schedules startLoading; each stage of startLoading runs in a timer      *)
(* callback of its own, so togglePause and animation frames run between    *)
(* the stages. game.created lists the components in creation order.        *)
(***************************************************************************)
terrainVars ==
  <<terrainMeshes, seed, world, scene, nextId, timers, pc, tracked, existing,
    ticks, outcome, healed, initCalls, schedules, noiseOffsetX, twin, builds>>

counters == <<draws, queries, disposals, skipped, returned, parts>>

\* the Game after its constructor returned
GameConstructed(s0) ==
  [stage |-> "physics", isRunning |-> FALSE, created |-> <<"physicsWorld">>,
   seed |-> s0, toggles |-> 0, resets |-> 0]

InitGame ==
  \E s0 \in GameSeeds :
    /\ FreshTerrain(s0)
    /\ Counters
    /\ NoParts
    /\ game = GameConstructed(s0)

\* the field of the component is set
Has(component) == \E k \in 1..Len(game.created) : game.created[k] = component

\* initializePhysicsWorld has no try: its exception rejects the promise and
\* startLoading gives up in its catch
InitializePhysicsWorld ==
  /\ pc = "idle"
  /\ game.stage = "physics"
  /\ \E ok \in BOOLEAN :
       game' = IF ok
               THEN [game EXCEPT !.stage = "terrain",
                                 !.created = Append(@, "physicsWorld")]
               ELSE [game EXCEPT !.stage = "failed"]
  /\ UNCHANGED terrainVars
  /\ UNCHANGED counters

\* initializeTerrainBase: new Terrain, initialize(), generateAdditionalSegments
\* inside a try whose catch resolves the stage
InitializeTerrainBase ==
  /\ pc = "idle"
  /\ game.stage = "terrain"
  /\ \E ok \in BOOLEAN :
       IF ok
       THEN \E c \in {Constructed(game.seed)} :
              \E b \in {BuildAll(c.store, c.seed, noiseOffsetX, c.nextId,
                                 InitialStartXs)} :
                /\ terrainMeshes' = b.store
                /\ seed' = b.seed
                /\ nextId' = b.nextId
                /\ world' = Ids(b.store)
                /\ scene' = Ids(b.store)
                /\ initCalls' = 1
                /\ schedules' = 1
                /\ timers' = IF Max(0, totalSegments - Len(b.store)) <= 0
                             THEN timers
                             ELSE Append(timers, batchFirstIndex)
                /\ game' = [game EXCEPT !.stage = "vehicle",
                                        !.created = Append(@, "terrain")]
       ELSE /\ game' = [game EXCEPT !.stage = "vehicle"]
            /\ UNCHANGED <<terrainMeshes, seed, nextId, world, scene,
                           initCalls, schedules, timers>>
  /\ UNCHANGED <<pc, tracked, existing, ticks, outcome, healed, noiseOffsetX,
                 twin, builds>>
  /\ UNCHANGED counters

\* createVehicle: new Vehicle inside a try whose catch resolves the stage
CreateVehicle ==
  /\ pc = "idle"
  /\ game.stage = "vehicle"
  /\ \E ok \in BOOLEAN :
       game' = IF ok
               THEN [game EXCEPT !.stage = "camera",
                                 !.created = Append(@, "vehicle")]
               ELSE [game EXCEPT !.stage = "camera"]
  /\ UNCHANGED terrainVars
  /\ UNCHANGED counters

\* setupCamera: new Camera unless there is a game camera already
SetupCamera ==
  /\ pc = "idle"
  /\ game.stage = "camera"
  /\ \E ok \in BOOLEAN :
       game' = IF ok /\ ~Has("gameCamera")
               THEN [game EXCEPT !.stage = "controls",
                                 !.created = Append(@, "gameCamera")]
               ELSE [game EXCEPT !.stage = "controls"]
  /\ UNCHANGED terrainVars
  /\ UNCHANGED counters

\* initializeControls: new Controls(this.vehicle, ...)
InitializeControls ==
  /\ pc = "idle"
  /\ game.stage = "controls"
  /\ \E ok \in BOOLEAN :
       game' = IF ok
               THEN [game EXCEPT !.stage = "finalize",
                                 !.created = Append(@, "controls")]
               ELSE [game EXCEPT !.stage = "finalize"]
  /\ UNCHANGED terrainVars
  /\ UNCHANGED counters

\* generateAdditionalSegments() of the Terrain, if the game has one
AdditionalSegments ==
  IF Has("terrain")
  THEN /\ timers' = IF Max(0, totalSegments - Len(terrainMeshes)) <= 0
                    THEN timers
                    ELSE Append(timers, batchFirstIndex)
       /\ schedules' = schedules + 1
  ELSE UNCHANGED <<timers, schedules>>

\* finalizeInitialization
FinalizeInitialization ==
  /\ pc = "idle"
  /\ game.stage = "finalize"
  /\ AdditionalSegments
  /\ game' = [game EXCEPT !.stage = "complete"]
  /\ UNCHANGED <<terrainMeshes, seed, world, scene, nextId, pc, tracked,
                 existing, ticks, outcome, healed, initCalls, noiseOffsetX,
                 twin, builds>>
  /\ UNCHANGED counters

\* the callback of completeLoading: controls are created if there are none,
\* the game starts running
CompleteLoading ==
  /\ pc = "idle"
  /\ game.stage = "complete"
  /\ AdditionalSegments
  /\ game' = [game EXCEPT !.stage = "done",
                          !.isRunning = TRUE,
                          !.created = IF Has("controls") THEN @
                                      ELSE Append(@, "controls")]
  /\ UNCHANGED <<terrainMeshes, seed, world, scene, nextId, pc, tracked,
                 existing, ticks, outcome, healed, initCalls, noiseOffsetX,
                 twin, builds>>
  /\ UNCHANGED counters

\* togglePause()
TogglePause ==
  /\ pc = "idle"
  /\ game.toggles < MaxToggles
  /\ game' = [game EXCEPT !.isRunning = ~@, !.toggles = @ + 1]
  /\ UNCHANGED terrainVars
  /\ UNCHANGED counters

\* the terrain.update part of an animation frame of a running game; the
\* vehicle rests at x = 5, without a vehicle the position is the origin
AnimateUpdate ==
  /\ pc = "idle"
  /\ game.isRunning
  /\ Has("terrain")
  /\ ticks < MaxFrames
  /\ UpdateAt(IF Has("vehicle") THEN Num(5) ELSE Num(0))
  /\ UNCHANGED <<initCalls, schedules, noiseOffsetX, twin, builds>>
  /\ UNCHANGED aux

\* the camera part of an animation frame of a running game: without a game
\* camera, the fallback branch creates one
AnimateCamera ==
  /\ pc = "idle"
  /\ game.isRunning
  /\ ~Has("gameCamera")
  /\ game' = [game EXCEPT !.created = Append(@, "gameCamera")]
  /\ UNCHANGED terrainVars
  /\ UNCHANGED counters

\* the components in the order resetWithSameSeed creates them
ResetOrder == <<"physicsWorld", "terrain", "vehicle", "gameCamera", "controls">>

\* resetWithSameSeed: dispose(), then the components are created one after
\* the other inside one try; the first exception ends the sequence
ResetWithSameSeed ==
  /\ pc = "idle"
  /\ game.stage = "done"
  /\ game.resets < MaxResets
  /\ \E n \in 1..Len(ResetOrder) :
       /\ game' = [game EXCEPT !.created = SubSeq(ResetOrder, 1, n),
                               !.resets = @ + 1]
       /\ IF n >= 2
          THEN \E c \in {Constructed(game.seed)} :
                 /\ terrainMeshes' = c.store
                 /\ seed' = c.seed
                 /\ nextId' = c.nextId
                 /\ world' = Ids(c.store)
                 /\ scene' = Ids(c.store)
          ELSE /\ terrainMeshes' = <<>>
               /\ world' = {}
               /\ scene' = {}
               /\ UNCHANGED <<seed, nextId>>
  /\ initCalls' = 0
  /\ schedules' = 0
  /\ timers' = <<>>
  /\ outcome' = "none"
  /\ UNCHANGED <<pc, tracked, existing, ticks, healed, noiseOffsetX, twin,
                 builds>>
  /\ UNCHANGED counters

NextGame ==
  \/ InitializePhysicsWorld
  \/ InitializeTerrainBase
  \/ CreateVehicle
  \/ SetupCamera
  \/ InitializeControls
  \/ FinalizeInitialization
  \/ CompleteLoading
  \/ TogglePause
  \/ AnimateUpdate
  \/ AnimateCamera
  \/ ResetWithSameSeed
  \/ GenerateNextBatch
  \/ GenerateAhead
  \/ EvictBehind
  \/ SelfHeal

SpecGame == InitGame /\ [][NextGame]_vars


(***************************************************************************)
(* Properties of the segment store                                         *)
(***************************************************************************)
TickReturned == pc = "idle" /\ outcome = "completed"

\* C1: no-overlap.  In every reachable state no two segments of
\* terrainMeshes have the same startX.
NoOverlap == NoDuplicateStartX(terrainMeshes)

\* C2: the update tick never blocks.  The generate-ahead loop is never in a
\* state where its exit test fails and its body changes nothing, which is the
\* state from which the loop iterates for ever.
GenerateAheadStalls ==
  /\ pc = "generate"
  /\ ~ReachedAhead(lastSegmentIndex(terrainMeshes), tracked)
  /\ nextStartX(terrainMeshes) \in existing

UpdateNeverBlocks == ~GenerateAheadStalls

\* C3: self-heal postcondition.  When a tick has returned for a valid tracked
\* x, some live segment covers x; with x = 125 that segment starts at 120.
SelfHealPostcondition ==
  TickReturned =>
    /\ \E k \in 1..Len(terrainMeshes) : Covers(terrainMeshes[k], tracked)
    /\ (tracked = Num(125) => 120 \in StartXs(terrainMeshes))

SelfHealWitness ==
  /\ TickReturned
  /\ healed
  /\ tracked = Num(125)
  /\ 120 \in StartXs(terrainMeshes)

\* C4: window bound.  When a tick has returned, the number of live segments
\* is at most segmentsAhead + segmentsBehind + transientSlack, the slack being
\* the allowance that the initial population of the constructor needs.
transientSlack == initialSegments - (segmentsAhead + segmentsBehind)

WindowBound ==
  TickReturned =>
    Len(terrainMeshes) <= segmentsAhead + segmentsBehind + transientSlack

\* C5: ordered and contiguous window.  When a tick has returned, terrainMeshes
\* is sorted by ascending startX and consecutive entries are exactly
\* segmentWidth apart.
OrderedContiguous ==
  TickReturned =>
    \A k \in 1..(Len(terrainMeshes) - 1) :
      terrainMeshes[k + 1].startX = terrainMeshes[k].startX + segmentWidth

\* C6: invalid tracked position.  A call of update with a position that is
\* missing, not a number, NaN, infinite, or of negative segment index returns
\* at once and leaves the store, the RNG state, the physics world and the
\* scene unchanged.
UpdateCalled == pc = "idle" /\ outcome' \in {"rejected", "running"}

InvalidPositionRejected ==
  [][(UpdateCalled /\ tracked' \in InvalidPositions) =>
       (pc' = "idle" /\ UNCHANGED <<terrainMeshes, seed, world, scene>>)]_vars

ChunkTypes(store) == [k \in 1..Len(store) |-> store[k].chunkType]

\* C7: determinism.  Two instances constructed with the same seed and asked
\* for the same builds in the same order have, after each build, the same RNG
\* state and the same sequence of chunk types, whatever the unseeded draws of
\* either instance returned.
Determinism ==
  /\ seed = twin.seed
  /\ ChunkTypes(terrainMeshes) = ChunkTypes(twin.terrainMeshes)

DeterminismWitness ==
  /\ builds = MaxBuilds
  /\ seed = twin.seed
  /\ \E k \in 1..Len(terrainMeshes) :
       terrainMeshes[k].decorations # twin.terrainMeshes[k].decorations

\* C8: gap correctness.  For every live segment of chunk type 'gap',
\* getTerrainHeightAt is null at positions strictly inside the void window
\* that generateGap declares and a height at the positions a tenth of a unit
\* outside it.
VoidHalfWidth(seg) == GapHalfWidth(Difficulty(seg.startX)) \div 50

InsideVoid(seg) ==
  {seg.startX * 1000 + ((segmentWidth * 1000) \div 2) + o :
     o \in {100 - VoidHalfWidth(seg), 0, VoidHalfWidth(seg) - 100}}

OutsideVoid(seg) ==
  {seg.startX * 1000 + ((segmentWidth * 1000) \div 2) + o :
     o \in {0 - VoidHalfWidth(seg) - 100, VoidHalfWidth(seg) + 100}}

GapCorrectness ==
  \A k \in 1..Len(terrainMeshes) :
    terrainMeshes[k].chunkType = "gap" =>
      /\ \A xm \in InsideVoid(terrainMeshes[k]) :
           getTerrainHeightAt(terrainMeshes, xm, seed, noiseOffsetX) = Null
      /\ \A xm \in OutsideVoid(terrainMeshes[k]) :
           getTerrainHeightAt(terrainMeshes, xm, seed, noiseOffsetX) # Null

\* C9: continuity.  For every two live segments A and B with
\* B.startX = A.startX + segmentWidth, the last sample of A and the first
\* sample of B have the same height.
Continuity ==
  \A j, k \in 1..Len(terrainMeshes) :
    terrainMeshes[k].startX = terrainMeshes[j].startX + segmentWidth =>
      SampleY(terrainMeshes[j], nbPoints - 1) = SampleY(terrainMeshes[k], 0)

\* C10: difficulty monotonicity.  From the current RNG state and for every
\* difficulty, selectChunkType returns 'gap' or 'valley' only at difficulty
\* 0.3 or more, 'washboard' only at 0.15 or more, and 'hills' or 'plateau'
\* below 0.15; the chunk types of the live segments obey the same thresholds.
Difficulties == {0, 500, 749, 750, 1000, 1499, 1500, 2499, 2500, 3499, 3500, 4950}

Introduced(chunkType, d) ==
  /\ chunkType \in {"gap", "valley"} => d >= 1500
  /\ chunkType = "washboard" => d >= 750
  /\ d < 750 => chunkType \in {"hills", "plateau"}

DifficultyMonotonicity ==
  /\ \A d \in Difficulties : Introduced(selectChunkType(seed, d).chunkType, d)
  /\ \A k \in 1..Len(terrainMeshes) :
       Introduced(terrainMeshes[k].chunkType, Difficulty(terrainMeshes[k].startX))

DifficultyMonotonicityWitness ==
  /\ builds = MaxBuilds
  /\ \E k \in 1..Len(terrainMeshes) :
       /\ terrainMeshes[k].chunkType = "gap"
       /\ Difficulty(terrainMeshes[k].startX) >= 1500
  /\ \E k \in 1..Len(terrainMeshes) :
       /\ terrainMeshes[k].startX = 720
       /\ terrainMeshes[k].chunkType \in {"hills", "plateau"}


\* C11: after any number n >= 1 of seededRandom() calls, whatever integer
\* seed the game passed, the state lies in 0..233279 and the value returned,
\* state / 233280, lies in [0, 1)
RngContract ==
  draws >= 1 =>
    /\ seed \in 0..(lcgModulus - 1)
    /\ returned.v >= 0
    /\ returned.v < lcgModulus

\* C12: a getTerrainHeightAt or getTerrainHeightNear call, on a covered or
\* an uncovered x, leaves the store, this.seed, the physics world and the
\* scene as they were
QueriesReadOnly ==
  [][(queries' = queries + 1 /\ returned'.kind \in {"at", "near"})
       => UNCHANGED <<terrainMeshes, seed, world, scene>>]_vars

\* a height query has answered for an x that no segment covers, through the
\* fallback, and for an x inside a segment built after construction
QueriesReadOnlyWitness ==
  /\ queries = MaxQueries
  /\ returned.kind = "at"
  /\ ~returned.covered
  /\ builds = 1
  /\ Len(terrainMeshes) = initialSegments + 1

\* C13: two successive evaluations of noise(x), or of getTerrainHeightAt(x)
\* on an x that no segment covers, give the same value for the same x,
\* whatever was built or drawn between them
NoiseStateless ==
  [][(/\ queries' = queries + 1
      /\ returned'.kind \in {"noise", "at"}
      /\ returned'.kind = returned.kind
      /\ returned'.x = returned.x
      /\ ~returned.covered
      /\ ~returned'.covered)
       => returned'.v = returned.v]_vars

\* C14: a dispose() call leaves the store empty and no body or mesh of any
\* segment in the physics world or the scene, and a dispose() call that
\* follows another one changes nothing
DisposeComplete ==
  [][disposals' = disposals + 1 =>
       /\ terrainMeshes' = <<>>
       /\ world' = {}
       /\ scene' = {}
       /\ (outcome = "disposed" =>
             UNCHANGED <<terrainMeshes, seed, world, scene, nextId, timers>>)
    ]_vars

\* dispose() was called twice in a row on a store that streaming had changed
DisposeCompleteWitness ==
  /\ disposals = MaxDisposals
  /\ outcome = "disposed"
  /\ timers = <<>>
  /\ ticks >= 1
  /\ nextId > initialSegments + 1
  /\ terrainMeshes = <<>>

\* C15: once dispose() has returned, the store stays empty and the physics
\* world and the scene hold no terrain body or mesh, whatever batch was
\* pending when it returned
DisposeStopsBatches ==
  disposals >= 1 => (terrainMeshes = <<>> /\ world = {} /\ scene = {})

\* C16: when a tick has returned, the segments whose bodies are in the
\* physics world and the segments whose meshes and decorations are in the
\* scene are exactly the live segments, each of them once in the store
HandlesBelongToLive ==
  TickReturned =>
    /\ world = Ids(terrainMeshes)
    /\ scene = Ids(terrainMeshes)
    /\ Cardinality(Ids(terrainMeshes)) = Len(terrainMeshes)

\* a tick has returned after the duplicate scan removed the second copy of
\* the initial segments and evict-behind removed the oldest ones
HandlesBelongToLiveWitness ==
  /\ TickReturned
  /\ initCalls = 1
  /\ Len(terrainMeshes) < initialSegments
  /\ Head(terrainMeshes).startX > startOffset * segmentWidth
  /\ world = Ids(terrainMeshes)

\* C17: a createTerrainSegment(startX) call in which mesh, physics or
\* decoration construction throws still returns a segment, and a segment
\* for startX is in the store
BuilderFailureContained ==
  [][(pc = "idle" /\ builds' = builds + 1) =>
       /\ returned'.kind = "segment"
       /\ returned'.x \in StartXs(terrainMeshes')]_vars

\* C18: a tick that passed the validity check runs every sub-step down to
\* level of detail and the info display, whatever sub-step threw before
SubStepsIndependent ==
  [][(pc = "heal" /\ pc' = "idle") => outcome' = "completed"]_vars

\* position of the first creation of a component, 0 if it was not created
FirstCreated(component) ==
  IF Has(component)
  THEN CHOOSE k \in 1..Len(game.created) :
         /\ game.created[k] = component
         /\ \A j \in 1..(k - 1) : game.created[j] # component
  ELSE 0

CreatedBefore(a, b) ==
  Has(b) => (Has(a) /\ FirstCreated(a) < FirstCreated(b))

\* C19: in every state of the Game's loading the physics world was created
\* before the Terrain, the Terrain before the Vehicle, and the Vehicle
\* before the game Camera and the Controls
InitializationOrdering ==
  /\ CreatedBefore("physicsWorld", "terrain")
  /\ CreatedBefore("terrain", "vehicle")
  /\ CreatedBefore("vehicle", "gameCamera")
  /\ CreatedBefore("vehicle", "controls")

\* C20: after generate-ahead has skipped a start position that a live
\* segment owns, the loop goes on with a strictly larger candidate: the
\* position that its next iteration examines lies above the skipped one
SkipAdvances ==
  (pc = "generate" /\ skipped.kind = "num") =>
    nextStartX(terrainMeshes) > skipped.v

\* C21: when a tick has returned for a tracked x of index c, a live segment
\* starts at every index c, c + 1, ..., c + segmentsAhead
AheadCovered ==
  (TickReturned /\ tracked.kind = "num") =>
    \A k \in 0..segmentsAhead :
      ((tracked.v \div segmentWidth) + k) * segmentWidth
        \in StartXs(terrainMeshes)

\* C22: exact join on build.  A segment is appended to the store when it is
\* built, so a live segment that stands after its left neighbour in the store
\* was built while that neighbour was live; its first sample has the height
\* of the neighbour's last sample
JoinedOnBuild ==
  \A j, k \in 1..Len(terrainMeshes) :
    (j < k /\ terrainMeshes[k].startX
                = terrainMeshes[j].startX + segmentWidth) =>
      SampleY(terrainMeshes[k], 0) = SampleY(terrainMeshes[j], nbPoints - 1)

(***************************************************************************)
(* Smoothing of a sample array.  smoothSegmentPoints is handed arrays of   *)
(* nbPoints samples {x, y, height}; x is the sample's index here.  The     *)
(* arrays are a ramp of some slope from a base height, with or without a   *)
(* bump on one sample, and with the samples of a null run (the void of a   *)
(* 'gap' chunk, samples 9 to 20, or a longer one) at y = -24 with a null   *)
(* height.                                                                 *)
(***************************************************************************)
BaseHeights == {0, 3000, 0 - 1500}
Slopes == {0, 100, 0 - 200}
Bumps == {0 - 1, 4, 8, 21, 25}
NullRuns == {{}, 9..20, 2..27}

HandedSample(i, h, run) ==
  IF i \in run THEN [x |-> i, y |-> 0 - 24000, height |-> Null]
  ELSE [x |-> i, y |-> h, height |-> h]

HandedPoints ==
  {[k \in 1..nbPoints |->
      HandedSample(k - 1,
                   a + b * (k - 1) + (IF k - 1 = c THEN 1500 ELSE 0), run)] :
     a \in BaseHeights, b \in Slopes, c \in Bumps, run \in NullRuns}

windowSize == 5
halfWindow == windowSize \div 2

\* points.filter((p) => p.height !== null)
validPoints(pts) == SelectSeq(pts, LAMBDA q : q.height # Null)

\* validPoints.map((p) => p.y)
originalHeights(valid) == [k \in 1..Len(valid) |-> valid[k].y]

\* the weight 1.0 - Math.abs(j) / (halfWindow + 1), times halfWindow + 1
Weight(j) == (halfWindow + 1) - Abs(j)

RECURSIVE WeightedSum(_, _, _)
WeightedSum(h, i, j) ==
  IF j > halfWindow THEN 0
  ELSE h[i + j] * Weight(j) + WeightedSum(h, i, j + 1)

\* sum / windowSize
SmoothedY(h, i) ==
  WeightedSum(h, i, 0 - halfWindow) \div ((halfWindow + 1) * windowSize)

\* the positions of validPoints that the smoothing loop writes
LoopIndices(valid) == (halfWindow + 1)..(Len(valid) - halfWindow)

\* validPoints after the smoothing loop
SmoothedValid(valid) ==
  [k \in 1..Len(valid) |->
     IF k \in LoopIndices(valid)
     THEN [valid[k] EXCEPT !.y = SmoothedY(originalHeights(valid), k)]
     ELSE valid[k]]

\* points.find((p) => p.x === validPoint.x), read from the point's side
FoundValid(valid, x) ==
  valid[CHOOSE k \in 1..Len(valid) : valid[k].x = x]

\* the write-back loop
WrittenBack(pts, valid) ==
  [k \in 1..Len(pts) |->
     IF pts[k].height = Null THEN pts[k]
     ELSE [pts[k] EXCEPT !.y = FoundValid(valid, pts[k].x).y,
                         !.height = FoundValid(valid, pts[k].x).y]]

smoothSegmentPoints(pts) ==
  IF Len(pts) < windowSize \/ Len(validPoints(pts)) < windowSize THEN pts
  ELSE WrittenBack(pts, SmoothedValid(validPoints(pts)))

\* for every sample that the loop writes, the samples that it averaged
Windows(valid) ==
  IF Len(valid) < windowSize THEN {}
  ELSE {<<valid[i].x,
          {valid[i + j].x : j \in (0 - halfWindow)..halfWindow}>> :
          i \in LoopIndices(valid)}

InitSmooth ==
  \E s0 \in GameSeeds :
    /\ FreshTerrain(s0)
    /\ Counters
    /\ game = NoGame
    /\ points \in HandedPoints
    /\ smoothed = [done |-> FALSE, original |-> <<>>, windows |-> {}]
    /\ NoBodies
    /\ NoLod
    /\ NoPools

SmoothSegmentPoints ==
  /\ ~smoothed.done
  /\ points' = smoothSegmentPoints(points)
  /\ smoothed' = [done |-> TRUE, original |-> points,
                  windows |-> Windows(validPoints(points))]
  /\ UNCHANGED <<terrainVars, draws, queries, disposals, game, skipped,
                 returned, terrainBodies, decorations, lod,
                 pools>>

NextSmooth == SmoothSegmentPoints

SpecSmooth == InitSmooth /\ [][NextSmooth]_vars

\* C23: after smoothSegmentPoints every window that was averaged consists of
\* the five samples around its centre in the array as handed in, none of them
\* beyond a null run, and no null sample was changed
WindowsConsecutive ==
  smoothed.done =>
    /\ \A w \in smoothed.windows : w[2] = (w[1] - halfWindow)..(w[1] + halfWindow)
    /\ \A k \in 1..Len(points) :
         smoothed.original[k].height = Null => points[k] = smoothed.original[k]

\* C28: after smoothSegmentPoints every height that the loop wrote lies
\* between the smallest and the largest of the five heights of its window in
\* the array as handed in
WindowMin(w) ==
  CHOOSE h \in {smoothed.original[x + 1].y : x \in w} :
    \A x \in w : h <= smoothed.original[x + 1].y

WindowMax(w) ==
  CHOOSE h \in {smoothed.original[x + 1].y : x \in w} :
    \A x \in w : h >= smoothed.original[x + 1].y

TrueAverage ==
  smoothed.done =>
    \A w \in smoothed.windows :
      /\ points[w[1] + 1].height >= WindowMin(w[2])
      /\ points[w[1] + 1].height <= WindowMax(w[2])

(***************************************************************************)
(* Physics bodies of a sample array.  After the smoothing pass             *)
(* createTerrainSegment creates the bodies of the segment from its         *)
(* samples.  A body is kept as its kind and the first and last sample      *)
(* that it spans.  The unnamed build and Terrain.js differ here; the       *)
(* arrays of Terrain.js have 50 samples, the block is run on the arrays of *)
(* nbPoints samples.                                                       *)
(***************************************************************************)
SEGMENT_STEP == 3
SKIP_MINOR_SEGMENTS == TRUE
subsegments == 3

Body(kind, from, to) == [kind |-> kind, from |-> from, to |-> to]

\* Math.abs(p2.x - p1.x) for the samples i and j, in thousandths
SegmentLength(i, j) == LocalX(j) - LocalX(i)

\* createSideBarriers: one barrier on each side, whatever the heights
createSideBarriers(pts) ==
  IF Len(pts) < 2 THEN <<>>
  ELSE <<Body("side", 0, Len(pts) - 1), Body("side", 0, Len(pts) - 1)>>

\* createPhysicsSegment of the unnamed build, from sample i on: one box per
\* pair of samples segmentStep apart, null or not
RECURSIVE createPhysicsSegment(_, _, _, _)
createPhysicsSegment(pts, i, segmentStep, skipMinorSegments) ==
  IF i >= Len(pts) - 1 THEN <<>>
  ELSE (IF skipMinorSegments
           /\ SegmentLength(i, Min(i + segmentStep, Len(pts) - 1)) < 500
        THEN <<>>
        ELSE <<Body("ground", i, Min(i + segmentStep, Len(pts) - 1))>>)
       \o createPhysicsSegment(pts, i + segmentStep, segmentStep,
                               skipMinorSegments)

\* first and last sample of subsegment i of createBackgroundPhysics
SubsegmentStart(pts, i) == (i * Len(pts)) \div subsegments
SubsegmentEnd(pts, i) == (((i + 1) * Len(pts)) \div subsegments) - 1

\* the bodies of one side and one depth level, from subsegment i on
RECURSIVE BackgroundLevel(_, _)
BackgroundLevel(pts, i) ==
  IF i >= subsegments THEN <<>>
  ELSE (IF \E j \in SubsegmentStart(pts, i)..SubsegmentEnd(pts, i) :
             pts[j + 1].height # Null
        THEN <<Body("background", SubsegmentStart(pts, i),
                    SubsegmentEnd(pts, i))>>
        ELSE <<>>)
       \o BackgroundLevel(pts, i + 1)

\* createBackgroundPhysics: two sides of three depth levels
createBackgroundPhysics(pts) ==
  IF Len(pts) < 2 THEN <<>>
  ELSE BackgroundLevel(pts, 0) \o BackgroundLevel(pts, 0)
       \o BackgroundLevel(pts, 0) \o BackgroundLevel(pts, 0)
       \o BackgroundLevel(pts, 0) \o BackgroundLevel(pts, 0)

\* createPhysicsForSegment of the unnamed build
createPhysicsForSegment(pts) ==
  createSideBarriers(pts)
    \o createPhysicsSegment(pts, 0, SEGMENT_STEP, SKIP_MINOR_SEGMENTS)
    \o createBackgroundPhysics(pts)

\* the gapRanges loop of Terrain.js from sample i on; start is
\* currentGapStart, or -1 for null
RECURSIVE gapRanges(_, _, _)
gapRanges(pts, i, start) ==
  IF i >= Len(pts)
  THEN (IF start # 0 - 1
        THEN <<[start |-> start, end |-> Len(pts) - 1]>> ELSE <<>>)
  ELSE IF pts[i + 1].height = Null /\ start = 0 - 1
  THEN gapRanges(pts, i + 1, i)
  ELSE IF pts[i + 1].height # Null /\ start # 0 - 1
  THEN <<[start |-> start, end |-> i - 1]>> \o gapRanges(pts, i + 1, 0 - 1)
  ELSE gapRanges(pts, i + 1, start)

\* createPhysicsSegment of Terrain.js on points.slice(a, b + 1), from pair i
\* on: one box per pair of adjacent samples that both have a height
RECURSIVE PhysicsSegmentOfSlice(_, _, _)
PhysicsSegmentOfSlice(pts, i, b) ==
  IF i >= b THEN <<>>
  ELSE (IF pts[i + 1].height = Null \/ pts[i + 2].height = Null THEN <<>>
        ELSE <<Body("ground", i, i + 1)>>)
       \o PhysicsSegmentOfSlice(pts, i + 1, b)

\* the loop over gapRanges from gap k on, with currentSegmentStart = cur, and
\* the segment after the last gap
RECURSIVE BodiesBetweenGaps(_, _, _, _)
BodiesBetweenGaps(pts, gaps, k, cur) ==
  IF k > Len(gaps)
  THEN (IF cur < Len(pts) THEN PhysicsSegmentOfSlice(pts, cur, Len(pts) - 1)
        ELSE <<>>)
  ELSE (IF cur < gaps[k].start
        THEN PhysicsSegmentOfSlice(pts, cur, gaps[k].start - 1) ELSE <<>>)
       \o <<Body("floor", gaps[k].start, gaps[k].end)>>
       \o BodiesBetweenGaps(pts, gaps, k + 1, gaps[k].end + 1)

\* the physics block of createTerrainSegment in Terrain.js
TerrainJsBodies(pts) ==
  BodiesBetweenGaps(pts, gapRanges(pts, 0, 0 - 1), 1, 0)
    \o (IF Len(gapRanges(pts, 0, 0 - 1)) = 0
        THEN PhysicsSegmentOfSlice(pts, 0, Len(pts) - 1) ELSE <<>>)

CreatePhysicsForSegment ==
  /\ smoothed.done
  /\ terrainBodies.by = "none"
  /\ terrainBodies' = [by |-> "unnamed",
                       bodies |-> createPhysicsForSegment(points)]
  /\ UNCHANGED <<terrainVars, draws, queries, disposals, game, skipped,
                 returned, points, smoothed, decorations, lod,
                 pools>>

CreateTerrainJsBodies ==
  /\ smoothed.done
  /\ terrainBodies.by = "none"
  /\ terrainBodies' = [by |-> "Terrain.js", bodies |-> TerrainJsBodies(points)]
  /\ UNCHANGED <<terrainVars, draws, queries, disposals, game, skipped,
                 returned, points, smoothed, decorations, lod,
                 pools>>

NextPhysics ==
  \/ SmoothSegmentPoints
  \/ CreatePhysicsForSegment
  \/ CreateTerrainJsBodies

SpecPhysics == InitSmooth /\ [][NextPhysics]_vars

\* the ground boxes among the bodies pushed
GroundBoxes ==
  {k \in 1..Len(terrainBodies.bodies) : terrainBodies.bodies[k].kind = "ground"}

\* C24: the bodies that createTerrainSegment of the unnamed build pushes hold
\* no ground box spanning a sample with a null height, and every null sample
\* lies over a floor collider
NoGroundOverVoid ==
  terrainBodies.by = "unnamed" =>
    /\ \A k \in GroundBoxes :
         \A i \in terrainBodies.bodies[k].from..terrainBodies.bodies[k].to :
           points[i + 1].height # Null
    /\ \A i \in 0..(Len(points) - 1) :
         points[i + 1].height = Null =>
           \E k \in 1..Len(terrainBodies.bodies) :
             /\ terrainBodies.bodies[k].kind = "floor"
             /\ i \in terrainBodies.bodies[k].from..terrainBodies.bodies[k].to

\* C29: for an array with no null sample, createTerrainSegment of Terrain.js
\* pushes one ground box per pair of adjacent samples, points.length - 1 in
\* all, and no two of them span the same pair
OneBodyPerPair ==
  (terrainBodies.by = "Terrain.js"
     /\ \A i \in 1..Len(points) : points[i].height # Null) =>
    /\ Cardinality(GroundBoxes) = Len(points) - 1
    /\ \A j, k \in GroundBoxes :
         terrainBodies.bodies[j] = terrainBodies.bodies[k] => j = k

(***************************************************************************)
(* Level of detail.  applyLOD is handed a segment and its distance from    *)
(* the tracked position; of the segment the model keeps the decorations,   *)
(* each with its type, its scale in thousandths and whether it is visible. *)
(* addTerrainDecorations leaves every decoration visible.  The unnamed     *)
(* build and Terrain.js differ here.                                       *)
(***************************************************************************)
MaxDecorations == 2
MaxLodCalls == 2
LodDistances == {20, 150, 300, 400, 415, 580}

HIGH == 100
MEDIUM == 200
LOW == 400

Decoration(type, scale) == [type |-> type, scale |-> scale, visible |-> TRUE]

AddedDecorations ==
  {Decoration("rock", 600), Decoration("rock", 1000),
   Decoration("tree", 1000), Decoration("sign", 1000)}

HandedDecorations ==
  UNION {[1..n -> AddedDecorations] : n \in 1..MaxDecorations}

\* applyLOD of the unnamed build on the decorations: beyond LOW every
\* decoration is hidden, at or below LOW every decoration is shown
applyLOD(decs, distanceFromPlayer) ==
  [k \in 1..Len(decs) |->
     [decs[k] EXCEPT !.visible = ~(distanceFromPlayer > LOW)]]

\* applyLOD of Terrain.js on the decorations
applyLODJs(decs, distanceFromPlayer) ==
  IF distanceFromPlayer < HIGH THEN decs
  ELSE IF distanceFromPlayer < MEDIUM THEN decs
  ELSE IF distanceFromPlayer < LOW
  THEN [k \in 1..Len(decs) |->
          IF decs[k].type = "rock" /\ decs[k].scale < 700
          THEN [decs[k] EXCEPT !.visible = FALSE] ELSE decs[k]]
  ELSE [k \in 1..Len(decs) |->
          IF decs[k].type # "sign"
          THEN [decs[k] EXCEPT !.visible = FALSE] ELSE decs[k]]

InitLod ==
  \E s0 \in GameSeeds :
    /\ FreshTerrain(s0)
    /\ Counters
    /\ game = NoGame
    /\ NoSmoothing
    /\ NoBodies
    /\ NoPools
    /\ decorations \in HandedDecorations
    /\ lod = [by |-> "none", distance |-> 0, calls |-> 0]

ApplyLOD ==
  /\ lod.by \in {"none", "unnamed"}
  /\ lod.calls < MaxLodCalls
  /\ \E d \in LodDistances :
       /\ decorations' = applyLOD(decorations, d)
       /\ lod' = [by |-> "unnamed", distance |-> d, calls |-> lod.calls + 1]
  /\ UNCHANGED <<terrainVars, draws, queries, disposals, game, skipped,
                 returned, points, smoothed, terrainBodies,
                 pools>>

ApplyLODJs ==
  /\ lod.by \in {"none", "Terrain.js"}
  /\ lod.calls < MaxLodCalls
  /\ \E d \in LodDistances :
       /\ decorations' = applyLODJs(decorations, d)
       /\ lod' = [by |-> "Terrain.js", distance |-> d,
                  calls |-> lod.calls + 1]
  /\ UNCHANGED <<terrainVars, draws, queries, disposals, game, skipped,
                 returned, points, smoothed, terrainBodies,
                 pools>>

NextLod == ApplyLOD \/ ApplyLODJs

SpecLod == InitLod /\ [][NextLod]_vars

\* C26: after applyLOD has run on a segment, at whatever distance, every
\* sign decoration of the segment is visible
SignsStayVisible ==
  lod.by # "none" =>
    \A k \in 1..Len(decorations) :
      decorations[k].type = "sign" => decorations[k].visible

\* C27: rebuild stability.  On an instance on which initialize() was not
\* called again, the constructor made the first build at each of the initial
\* start positions; every live segment at one of them, rebuilt after an
\* eviction or not, has the chunk type of that first build
RebuildStable ==
  \A s0 \in GameSeeds :
    (initCalls = 0 /\ noiseOffsetX = s0 % 10000) =>
      \A c \in {Constructed(s0)} :
        \A j \in 1..initialSegments, k \in 1..Len(terrainMeshes) :
          terrainMeshes[k].startX = InitialStartXs[j] =>
            terrainMeshes[k].chunkType = c.store[j].chunkType

(***************************************************************************)
(* Decoration objects and their pools.  initializeDecorationResources      *)
(* creates the pooled rocks, trees and signs, invisible, and adds each to  *)
(* the scene.  addTerrainDecorations takes its rocks through               *)
(* createRockDecoration and creates a new model for every tree and sign;   *)
(* how many it places depends on Math.random().  removeSegment detaches    *)
(* the decorations of the segment and returns them to the pool of their    *)
(* type.  An object is its creation number.                                *)
(***************************************************************************)
pooledRocks == 45
pooledTrees == 45
pooledSigns == 20
MaxRocks == 1
MaxDecorated == 2
MaxCreated == 3

\* the objects first + 1, ..., first + n, in creation order
Created(first, n) == [k \in 1..n |-> first + k]

InitPools ==
  \E s0 \in GameSeeds :
    /\ FreshTerrain(s0)
    /\ Counters
    /\ game = NoGame
    /\ NoSmoothing
    /\ NoBodies
    /\ NoLod
    /\ objectPools = [rock |-> Created(0, pooledRocks),
                      tree |-> Created(pooledRocks, pooledTrees),
                      sign |-> Created(pooledRocks + pooledTrees, pooledSigns)]
    /\ children = 1..(pooledRocks + pooledTrees + pooledSigns)
    /\ decorated = <<>>
    /\ made = pooledRocks + pooledTrees + pooledSigns

\* a build in progress: the pools, the scene, the objects made and the
\* decorations array of the new segment
Building(op, ch, n, decs) ==
  [objectPools |-> op, children |-> ch, made |-> n, decorations |-> decs]

\* createRockDecoration: the last rock of the pool, or a new rock that is
\* added to the scene
createRockDecoration(b) ==
  IF Len(b.objectPools.rock) > 0
  THEN Building([b.objectPools EXCEPT !.rock = SubSeq(@, 1, Len(@) - 1)],
                b.children, b.made,
                Append(b.decorations,
                       [mesh |-> b.objectPools.rock[Len(b.objectPools.rock)],
                        type |-> "rock"]))
  ELSE Building(b.objectPools, b.children \cup {b.made + 1}, b.made + 1,
                Append(b.decorations, [mesh |-> b.made + 1, type |-> "rock"]))

RECURSIVE RocksPlaced(_, _)
RocksPlaced(b, n) ==
  IF n = 0 THEN b ELSE RocksPlaced(createRockDecoration(b), n - 1)

\* createTreeModel or createSignModel, scene.add and decorations.push
ModelPlaced(b, type) ==
  Building(b.objectPools, b.children \cup {b.made + 1}, b.made + 1,
           Append(b.decorations, [mesh |-> b.made + 1, type |-> type]))

\* addTerrainDecorations placing n rocks and a model of each type of models
addTerrainDecorations(b, n, models) ==
  IF models = {} THEN RocksPlaced(b, n)
  ELSE IF models = {"tree"} THEN ModelPlaced(RocksPlaced(b, n), "tree")
  ELSE IF models = {"sign"} THEN ModelPlaced(RocksPlaced(b, n), "sign")
  ELSE ModelPlaced(ModelPlaced(RocksPlaced(b, n), "tree"), "sign")

\* returnToPool(poolName, object)
returnToPool(op, poolName, object) ==
  [op EXCEPT ![poolName] = Append(@, object)]

\* the decorations loop of removeSegment from decoration k on
RECURSIVE Returned(_, _, _)
Returned(op, decs, k) ==
  IF k > Len(decs) THEN op
  ELSE Returned(returnToPool(op, decs[k].type, decs[k].mesh), decs, k + 1)

Meshes(decs) == {decs[k].mesh : k \in 1..Len(decs)}

\* createTerrainSegment, of which the decorations are kept
BuildDecorated ==
  /\ Len(decorated) < MaxDecorated
  /\ made < pooledRocks + pooledTrees + pooledSigns + MaxCreated
  /\ \E n \in 0..MaxRocks, models \in SUBSET {"tree", "sign"} :
       \E b \in {addTerrainDecorations(
                   Building(objectPools, children, made, <<>>), n, models)} :
         /\ objectPools' = b.objectPools
         /\ children' = b.children
         /\ made' = b.made
         /\ decorated' = Append(decorated, b.decorations)
  /\ UNCHANGED <<terrainVars, draws, queries, disposals, game, skipped,
                 returned, points, smoothed, terrainBodies, decorations, lod>>

\* removeSegment on live segment k, then the store without it
RemoveSegment ==
  /\ \E k \in 1..Len(decorated) :
       /\ children' = children \ Meshes(decorated[k])
       /\ objectPools' = Returned(objectPools, decorated[k], 1)
       /\ decorated' = SubSeq(decorated, 1, k - 1)
                         \o SubSeq(decorated, k + 1, Len(decorated))
  /\ UNCHANGED <<terrainVars, draws, queries, disposals, game, skipped,
                 returned, points, smoothed, terrainBodies, decorations, lod,
                 made>>

NextPools == BuildDecorated \/ RemoveSegment

SpecPools == InitPools /\ [][NextPools]_vars

Pooled ==
  {objectPools.rock[k] : k \in 1..Len(objectPools.rock)}
    \cup {objectPools.tree[k] : k \in 1..Len(objectPools.tree)}
    \cup {objectPools.sign[k] : k \in 1..Len(objectPools.sign)}

\* C30: every decoration object of a live segment is a child of the scene,
\* is in no pool and is a decoration of no other live segment
DecorationsAttached ==
  \A j \in 1..Len(decorated) :
    \A d \in 1..Len(decorated[j]) :
      /\ decorated[j][d].mesh \in children
      /\ decorated[j][d].mesh \notin Pooled
      /\ \A k \in 1..Len(decorated) :
           k # j => decorated[j][d].mesh \notin Meshes(decorated[k])

(***************************************************************************)
(* Forward sweep.  On the terrain as constructed, with no batch scheduled, *)
(* every tick is called with the tracked x of the tick before plus a step  *)
(* smaller than segmentWidth.                                              *)
(***************************************************************************)
MaxSweepX == 640
MaxSweepTicks == 20
SweepSteps == {0, 10, segmentWidth - 1}

SweepUpdate ==
  /\ pc = "idle"
  /\ tracked.kind = "num"
  /\ ticks < MaxSweepTicks
  /\ \E d \in SweepSteps :
       /\ tracked.v + d <= MaxSweepX
       /\ UpdateAt(Num(tracked.v + d))
  /\ UNCHANGED <<initCalls, schedules, noiseOffsetX, twin, builds>>
  /\ UNCHANGED aux

NextSweep ==
  \/ SweepUpdate
  \/ GenerateAhead
  \/ EvictBehind
  \/ SelfHeal

SpecSweep == Init /\ [][NextSweep]_vars

\* C25: in a forward sweep, when a tick has returned the live segments have
\* pairwise distinct start positions and there are at most
\* max(initialSegments, segmentsAhead + segmentsBehind + 1) of them
SweepKeepsWindow ==
  TickReturned =>
    /\ NoDuplicateStartX(terrainMeshes)
    /\ Len(terrainMeshes)
         <= Max(initialSegments, segmentsAhead + segmentsBehind + 1)

\* a tick of the sweep has returned after segments were built ahead and
\* segments were evicted behind
SweepKeepsWindowWitness ==
  /\ TickReturned
  /\ tracked.v >= 600
  /\ Head(terrainMeshes).startX > 0
  /\ lastSegmentIndex(terrainMeshes) >= (tracked.v \div segmentWidth) + segmentsAhead
  /\ lastSegmentIndex(terrainMeshes) > initialSegments + startOffset - 1

====
